---- MODULE Spec2Model ----
(***************************************************************************)
(* Label Studio -> YOLO converter (src/main.go).                           *)
(*                                                                         *)
(* The module models the Converter of src/main.go: the source tree it      *)
(* reads, the output tree it writes, the process-wide math/rand generator  *)
(* and the stages of Convert.  Strings whose characters the code inspects  *)
(* (file names, label lines, class lines) are sequences of one-character   *)
(* strings; float64 values are kept with their 53-bit mantissa.            *)
(***************************************************************************)
EXTENDS Integers, Sequences, FiniteSets, Bags, TLC

VARIABLES
    files,       \* the file system: path -> content, for every regular file
    dirs,        \* the file system: the set of existing directory paths
    config,      \* Converter.config: SourceDir, OutputDir, TrainSplit, Seed
    pc,          \* position of the caller inside Convert / the driver
    err,         \* the error the current call returned ("" for nil)
    classes,     \* result of LoadClasses
    pairs,       \* result of GetImageLabelPairs (the caller's record list)
    stats,       \* result of ValidateLabels
    trainPairs,  \* first result of SplitDataset
    valPairs,    \* second result of SplitDataset
    rng,         \* state of the process-wide math/rand generator
    clock,       \* the wall clock, in seconds (time.Now at RFC3339 precision)
    history      \* the calls made so far in this process

vars == <<files, dirs, config, pc, err, classes, pairs, stats,
          trainPairs, valPairs, rng, clock, history>>

(***************************************************************************)
(* Bounds of the model.                                                    *)
(***************************************************************************)
MaxRecords == 50
MaxCalls == 3
MaxLineTokens == 6
MaxClassLines == 3

(***************************************************************************)
(* Generic helpers on sequences.                                           *)
(***************************************************************************)
Range(s) == {s[i] : i \in DOMAIN s}

RECURSIVE SeqToBag(_)
SeqToBag(s) ==
    IF s = <<>> THEN EmptyBag
    ELSE SetToBag({s[1]}) (+) SeqToBag(Tail(s))

Last(s) == s[Len(s)]

Front(s) == SubSeq(s, 1, Len(s) - 1)

(***************************************************************************)
(* float64.  A value is [sign, mant, exp]: mant is the 53-bit significand  *)
(* as a sequence of bits, most significant first (<<>> for zero), and the  *)
(* value is (-1)^sign * mant * 2^exp.                                      *)
(***************************************************************************)
MantBits == 53

ChunkBits == 8

RECURSIVE Pow2(_)
Pow2(n) == IF n = 0 THEN 1 ELSE 2 * Pow2(n - 1)

\* The natural number a bit sequence spells, and the w-bit spelling of v.
RECURSIVE BitsToNat(_)
BitsToNat(b) ==
    IF b = <<>> THEN 0 ELSE 2 * BitsToNat(Front(b)) + Last(b)

RECURSIVE NatToBits(_)
NatToBits(n) ==
    IF n = 0 THEN <<>> ELSE Append(NatToBits(n \div 2), n % 2)

FixedBits(v, w) == [i \in 1..w |-> (v \div Pow2(w - i)) % 2]

\* The next count bits of the binary expansion of r/den (0 <= r < den),
\* with the remainder left after them; ChunkBits bits are divided out at a
\* time.
RECURSIVE FracBits(_, _, _)
FracBits(r, den, count) ==
    IF count = 0 THEN [bits |-> <<>>, rem |-> r]
    ELSE LET w == IF count < ChunkBits THEN count ELSE ChunkBits
             q == (r * Pow2(w)) \div den
             rest == FracBits((r * Pow2(w)) % den, den, count - w)
         IN IF q >= 0 THEN [bits |-> FixedBits(q, w) \o rest.bits,
                            rem |-> rest.rem]
            ELSE [bits |-> <<>>, rem |-> 0]

\* Number of zero bits before the first one bit of r/den (0 < r < den).
RECURSIVE LeadingZeros(_, _)
LeadingZeros(r, den) ==
    IF 2 * r >= den THEN 0 ELSE 1 + LeadingZeros(2 * r, den)

\* b + 1 on a bit sequence; the result is one bit longer on carry-out.
IncBits(b) ==
    LET zeros == {i \in DOMAIN b : b[i] = 0}
    IN IF zeros = {} THEN <<1>> \o [i \in DOMAIN b |-> 0]
       ELSE LET j == CHOOSE i \in zeros : \A k \in zeros : k <= i
            IN [i \in DOMAIN b |-> IF i < j THEN b[i]
                                   ELSE IF i = j THEN 1 ELSE 0]

AllZero(b) == \A i \in DOMAIN b : b[i] = 0

\* Round-to-nearest-even of the significand kept, given whether the part
\* dropped is above, at or below one half of the last kept place.
RoundMant(sign, kept, exp, above, tie) ==
    LET up == above \/ (tie /\ Last(kept) = 1)
        inc == IF up THEN IncBits(kept) ELSE kept
    IN IF Len(inc) > MantBits
          THEN [sign |-> sign, mant |-> Front(inc), exp |-> exp + 1]
          ELSE [sign |-> sign, mant |-> inc, exp |-> exp]

FloatZero == [sign |-> 0, mant |-> <<>>, exp |-> 0]

\* The float64 nearest to the decimal fraction num/den (den > 0), as the Go
\* compiler and strconv.ParseFloat produce it for the literal.
FloatOfRatio(num, den) ==
    LET sign == IF num < 0 THEN 1 ELSE 0
        a == IF num < 0 THEN -num ELSE num
        ip == NatToBits(a \div den)
        r == a % den
    IN IF a = 0 THEN FloatZero
       ELSE IF ip # <<>>
          THEN LET fb == FracBits(r, den, MantBits - Len(ip))
               IN RoundMant(sign, ip \o fb.bits, -(MantBits - Len(ip)),
                            2 * fb.rem > den, 2 * fb.rem = den)
          ELSE LET z == LeadingZeros(r, den)
                   fb == FracBits(r * Pow2(z), den, MantBits)
               IN RoundMant(sign, fb.bits, -(z + MantBits),
                            2 * fb.rem > den, 2 * fb.rem = den)

\* b * n + c on a bit sequence, n and c small natural numbers; ChunkBits
\* bits are multiplied at a time, from the least significant end.
RECURSIVE MulBits(_, _, _)
MulBits(b, n, c) ==
    IF b = <<>> THEN NatToBits(c)
    ELSE LET w == IF Len(b) < ChunkBits THEN Len(b) ELSE ChunkBits
             v == BitsToNat(SubSeq(b, Len(b) - w + 1, Len(b))) * n + c
         IN IF v >= 0
               THEN MulBits(SubSeq(b, 1, Len(b) - w), n, v \div Pow2(w))
                       \o FixedBits(v % Pow2(w), w)
               ELSE <<>>

\* float64(n) * f for a natural number n < 2^53: the exact product rounded
\* once to 53 bits, as the IEEE-754 multiplication does.
FloatMulNat(n, f) ==
    IF n = 0 \/ f.mant = <<>> THEN FloatZero
    ELSE LET p == MulBits(f.mant, n, 0)
             extra == Len(p) - MantBits
             kept == SubSeq(p, 1, MantBits)
             dropped == SubSeq(p, MantBits + 1, Len(p))
         IN IF extra = 0 THEN [sign |-> f.sign, mant |-> p, exp |-> f.exp]
            ELSE RoundMant(f.sign, kept, f.exp + extra,
                           dropped[1] = 1 /\ ~AllZero(Tail(dropped)),
                           dropped[1] = 1 /\ AllZero(Tail(dropped)))
\* The conversion rounding toward minus infinity instead of toward zero.
FloatToIntFloor(f) ==
    IF f.mant = <<>> THEN 0
    ELSE LET keep == Len(f.mant) + f.exp
             mag == IF keep <= 0 THEN 0
                    ELSE IF f.exp >= 0 THEN BitsToNat(f.mant) * Pow2(f.exp)
                    ELSE BitsToNat(SubSeq(f.mant, 1, keep))
             frac == f.exp < 0 /\
                     (keep <= 0 \/
                      \E b \in (IF keep <= 0 THEN 1 ELSE keep + 1)..Len(f.mant) :
                          f.mant[b] = 1)
         IN IF f.sign = 1 THEN (IF frac THEN -(mag + 1) ELSE -mag) ELSE mag


\* int(f): conversion of a float64 to int truncates toward zero.
FloatToInt(f) ==
    IF f.mant = <<>> THEN 0
    ELSE LET keep == Len(f.mant) + f.exp
             mag == IF keep <= 0 THEN 0
                    ELSE IF f.exp >= 0 THEN BitsToNat(f.mant) * Pow2(f.exp)
                    ELSE BitsToNat(SubSeq(f.mant, 1, keep))
         IN IF f.sign = 1 THEN -mag ELSE mag

(***************************************************************************)
(* math/rand.  The process-wide generator is the additive lagged Fibonacci *)
(* generator of rngSource: 607 state words with the two indices tap and    *)
(* feed.  rand.Seed fills the words from the chain x -> seedrand(x), each  *)
(* xored with an entry of the library's table rngCooked, and every draw    *)
(* replaces vec[feed] by vec[feed] + vec[tap].  A draw is the 32-bit word  *)
(* r.Uint32() returns, kept as two 16-bit halves <<high, low>>.            *)
(***************************************************************************)
Int32max == 2147483647

\* The seed rand.Seed uses in place of 0.
SeedZero == 89482311

RngA == 48271

RngQ == 44488

RngR == 3399

Two16 == 65536

\* seedrand(x): x * 48271 mod (2^31 - 1), computed without overflow.
Seedrand(x) ==
    LET v == RngA * (x % RngQ) - RngR * (x \div RngQ)
    IN IF v < 0 THEN v + Int32max ELSE v

\* The seed as rngSource.Seed normalises it: modulo 2^31 - 1, and 0 replaced.
SeedNorm(seed) ==
    IF seed % Int32max = 0 THEN SeedZero ELSE seed % Int32max

\* rngLen and rngTap of the additive lagged Fibonacci generator.
RngLen == 607

RngTap == 273

Two20 == 1048576

\* A word of the generator modulo 2^63 (Int63 drops bit 63, and the low 63
\* bits of a sum depend on the low 63 bits of its terms alone), as four
\* chunks from the low end: three of 20 bits and one of 3 bits.
\* rngCooked of math/rand, in that form.
RngCooked ==
    <<<<589802, 212665, 390986, 4>>, <<417627, 269225, 31562, 4>>,
      <<110351, 81080, 220869, 1>>, <<234987, 379508, 656635, 4>>,
      <<53134, 116593, 518275, 2>>, <<508355, 952563, 876004, 7>>,
      <<1017257, 488511, 205263, 6>>, <<1046881, 349865, 183046, 4>>,
      <<579538, 857102, 927432, 6>>, <<129696, 127809, 632657, 4>>,
      <<413781, 299562, 126327, 7>>, <<666972, 812542, 875679, 1>>,
      <<82792, 234656, 1031595, 3>>, <<144395, 366233, 64051, 7>>,
      <<420354, 322794, 921851, 2>>, <<840074, 694459, 499644, 7>>,
      <<229548, 725738, 522188, 1>>, <<207643, 609455, 102871, 0>>,
      <<208047, 213582, 1010226, 3>>, <<70699, 598512, 410316, 4>>,
      <<229480, 652543, 74374, 2>>, <<997664, 70266, 373155, 2>>,
      <<171414, 1022940, 722852, 5>>, <<75142, 246424, 666263, 6>>,
      <<676577, 900983, 697395, 6>>, <<706974, 451512, 234529, 0>>,
      <<760188, 808213, 753833, 5>>, <<784233, 982844, 246770, 0>>,
      <<991500, 204527, 439780, 2>>, <<611317, 215442, 968787, 0>>,
      <<53737, 208369, 944660, 2>>, <<110921, 628125, 910434, 3>>,
      <<555345, 231267, 497996, 6>>, <<765539, 398681, 923092, 0>>,
      <<172151, 806557, 901014, 3>>, <<663795, 550573, 20322, 3>>,
      <<759743, 91245, 102618, 2>>, <<169338, 246147, 29063, 5>>,
      <<692299, 237981, 932688, 3>>, <<492840, 679724, 254856, 3>>,
      <<59511, 704925, 968459, 3>>, <<782450, 462721, 9577, 0>>,
      <<1026182, 85860, 512394, 7>>, <<291660, 494413, 290553, 2>>,
      <<501646, 357138, 536561, 7>>, <<781222, 44377, 9243, 0>>,
      <<613167, 365054, 705865, 5>>, <<798009, 993412, 103930, 6>>,
      <<996445, 776974, 433195, 5>>, <<844318, 234760, 756576, 0>>,
      <<381627, 460099, 988534, 6>>, <<121079, 44895, 876176, 1>>,
      <<1037367, 100311, 954413, 1>>, <<60281, 510206, 991867, 7>>,
      <<768920, 401438, 555278, 3>>, <<188785, 706450, 295310, 4>>,
      <<709440, 808205, 415958, 0>>, <<169626, 609479, 311224, 0>>,
      <<207293, 269883, 492881, 2>>, <<714566, 355099, 832277, 1>>,
      <<552777, 20374, 827536, 3>>, <<34665, 448485, 806932, 0>>,
      <<706928, 1046837, 865752, 4>>, <<349400, 740001, 956440, 5>>,
      <<252576, 1037891, 914302, 4>>, <<188502, 708699, 365033, 7>>,
      <<540201, 48575, 485355, 1>>, <<170482, 599349, 533618, 3>>,
      <<937195, 619941, 714309, 3>>, <<770859, 87491, 846456, 6>>,
      <<845934, 341370, 928094, 4>>, <<899848, 632058, 757866, 0>>,
      <<287689, 438116, 872456, 7>>, <<644860, 708561, 852869, 2>>,
      <<80543, 679453, 779988, 3>>, <<721820, 211833, 788895, 7>>,
      <<809525, 149568, 620578, 5>>, <<334543, 771165, 478776, 1>>,
      <<937534, 652621, 260143, 5>>, <<257806, 43131, 69114, 6>>,
      <<235369, 968628, 657881, 6>>, <<806929, 818372, 106179, 5>>,
      <<254933, 64577, 739225, 0>>, <<941026, 519420, 985056, 3>>,
      <<598718, 756593, 381648, 2>>, <<837473, 130183, 335594, 4>>,
      <<120541, 913279, 544862, 4>>, <<846085, 581633, 749271, 7>>,
      <<288954, 222287, 510986, 5>>, <<272848, 897764, 311857, 1>>,
      <<277971, 633097, 138445, 6>>, <<1032913, 1004168, 411753, 6>>,
      <<430005, 394465, 902511, 5>>, <<129782, 703243, 86500, 4>>,
      <<506151, 953578, 824903, 6>>, <<942558, 100315, 436034, 7>>,
      <<527932, 263319, 30605, 0>>, <<844819, 289830, 160068, 1>>,
      <<487435, 786846, 345947, 6>>, <<552215, 120333, 919672, 0>>,
      <<356832, 957791, 986895, 1>>, <<552535, 783160, 487010, 4>>,
      <<963814, 1045796, 815372, 0>>, <<563621, 678371, 321622, 2>>,
      <<202906, 570744, 302972, 5>>, <<131092, 639072, 526419, 1>>,
      <<87143, 977701, 588889, 3>>, <<632340, 571465, 233471, 7>>,
      <<872994, 947107, 370219, 7>>, <<804920, 537268, 35714, 5>>,
      <<1046750, 816770, 331935, 7>>, <<343820, 988620, 203949, 5>>,
      <<743462, 37894, 94725, 4>>, <<825082, 336139, 589937, 6>>,
      <<234491, 217965, 460030, 0>>, <<981834, 453834, 416923, 4>>,
      <<933913, 198955, 765895, 0>>, <<559594, 630135, 520373, 0>>,
      <<678043, 301967, 581130, 1>>, <<200688, 466072, 989006, 2>>,
      <<493021, 526886, 290999, 3>>, <<90814, 397883, 42679, 2>>,
      <<361250, 150748, 126909, 1>>, <<206371, 328299, 752567, 7>>,
      <<984272, 719265, 15644, 5>>, <<977185, 39882, 389369, 2>>,
      <<822795, 973265, 436860, 4>>, <<177913, 649126, 841895, 7>>,
      <<540436, 23502, 705743, 3>>, <<14276, 655498, 378233, 4>>,
      <<594640, 582951, 21384, 4>>, <<1014551, 729737, 561056, 7>>,
      <<179674, 381440, 129967, 5>>, <<673668, 688428, 713731, 0>>,
      <<1025104, 226089, 884386, 0>>, <<455176, 782379, 737028, 4>>,
      <<650547, 256163, 497252, 4>>, <<746521, 650613, 889559, 7>>,
      <<583852, 822053, 92193, 2>>, <<452913, 1046452, 605498, 6>>,
      <<469866, 577483, 438405, 3>>, <<987495, 654975, 941628, 2>>,
      <<836261, 611217, 718019, 2>>, <<751222, 30462, 443645, 6>>,
      <<911219, 1028894, 61365, 5>>, <<785582, 210333, 884516, 6>>,
      <<921563, 262976, 103399, 7>>, <<449938, 473676, 1045791, 0>>,
      <<829798, 454561, 283467, 1>>, <<462145, 283149, 27250, 4>>,
      <<132498, 774545, 52502, 3>>, <<841436, 360642, 869739, 0>>,
      <<272879, 54952, 811708, 5>>, <<604510, 695182, 554062, 4>>,
      <<306913, 533960, 585492, 1>>, <<123444, 750503, 663090, 4>>,
      <<141504, 162885, 1044079, 0>>, <<189601, 245261, 413230, 4>>,
      <<90120, 1001518, 244583, 2>>, <<291623, 269954, 987573, 0>>,
      <<700375, 51154, 949753, 2>>, <<801050, 614722, 319988, 5>>,
      <<672372, 1008223, 868366, 1>>, <<957971, 418060, 591510, 1>>,
      <<117978, 216444, 148825, 2>>, <<692768, 236413, 409922, 6>>,
      <<480598, 597858, 302992, 3>>, <<559805, 251458, 168299, 0>>,
      <<421792, 662640, 1004240, 1>>, <<848033, 446392, 272998, 6>>,
      <<241027, 121606, 826776, 0>>, <<425546, 398731, 253858, 6>>,
      <<836319, 224958, 933118, 4>>, <<222463, 178773, 451819, 3>>,
      <<464849, 647383, 1036823, 6>>, <<149467, 750434, 618914, 3>>,
      <<50491, 154961, 779727, 5>>, <<217697, 710455, 200488, 1>>,
      <<1043339, 4167, 693725, 5>>, <<570458, 263989, 44465, 3>>,
      <<790659, 485252, 1029191, 7>>, <<480262, 1003184, 729320, 1>>,
      <<508121, 265068, 796511, 5>>, <<724775, 907879, 208376, 7>>,
      <<313477, 719944, 402999, 3>>, <<783921, 301112, 117126, 6>>,
      <<491352, 975618, 984607, 5>>, <<791637, 21210, 381730, 1>>,
      <<569065, 552519, 709380, 7>>, <<971077, 128172, 157474, 3>>,
      <<353976, 21187, 497671, 4>>, <<958649, 330359, 524883, 2>>,
      <<433363, 798657, 137854, 4>>, <<632576, 722194, 468794, 5>>,
      <<1000434, 1029913, 713975, 3>>, <<573256, 360075, 809944, 1>>,
      <<127833, 99991, 710036, 5>>, <<159764, 711108, 1003914, 3>>,
      <<950808, 756936, 803779, 4>>, <<188343, 354041, 532410, 1>>,
      <<377004, 808259, 502954, 0>>, <<769167, 66444, 1028232, 5>>,
      <<965235, 349899, 148405, 7>>, <<499668, 197566, 201887, 6>>,
      <<74869, 274935, 436958, 7>>, <<770635, 359276, 840357, 4>>,
      <<646770, 482326, 113769, 2>>, <<426292, 999623, 718732, 4>>,
      <<136607, 402593, 81117, 7>>, <<593214, 16819, 357328, 5>>,
      <<911366, 889786, 649867, 6>>, <<877042, 251788, 494511, 5>>,
      <<564681, 239606, 202921, 3>>, <<938549, 117723, 894800, 2>>,
      <<70144, 575931, 748868, 5>>, <<143796, 829039, 222566, 0>>,
      <<473060, 957995, 564817, 3>>, <<747727, 344521, 18055, 7>>,
      <<604105, 669138, 581416, 2>>, <<307381, 480916, 786098, 0>>,
      <<216732, 277538, 639553, 2>>, <<132751, 325840, 327033, 7>>,
      <<386429, 429553, 364784, 0>>, <<901129, 711352, 306584, 6>>,
      <<304134, 534553, 87473, 4>>, <<1012799, 163151, 935472, 4>>,
      <<788549, 71310, 198179, 5>>, <<49977, 301164, 917912, 2>>,
      <<527962, 222569, 811416, 4>>, <<853274, 76531, 439474, 3>>,
      <<844154, 304902, 43761, 7>>, <<932416, 825693, 346059, 3>>,
      <<546399, 892574, 131768, 6>>, <<764980, 98781, 674282, 0>>,
      <<249409, 758405, 239548, 5>>, <<94010, 152682, 174611, 2>>,
      <<600162, 406716, 442726, 5>>, <<237681, 846793, 196458, 1>>,
      <<846417, 526998, 671794, 7>>, <<416292, 587798, 661563, 5>>,
      <<58468, 527660, 142156, 2>>, <<670374, 316811, 368189, 0>>,
      <<1041763, 564402, 631427, 3>>, <<196324, 756049, 238092, 0>>,
      <<199869, 722459, 775825, 4>>, <<827145, 1019706, 539066, 0>>,
      <<115896, 736989, 909059, 5>>, <<191753, 806072, 403092, 7>>,
      <<775008, 759929, 50691, 5>>, <<157271, 1013764, 350426, 0>>,
      <<930475, 112169, 557019, 4>>, <<405473, 872808, 489784, 5>>,
      <<650240, 615029, 211542, 6>>, <<757977, 192884, 334792, 0>>,
      <<154758, 965805, 736093, 2>>, <<734683, 855513, 554603, 2>>,
      <<660615, 747580, 155430, 4>>, <<456275, 264711, 867371, 5>>,
      <<579124, 567087, 287977, 7>>, <<948289, 257700, 983773, 2>>,
      <<161911, 951333, 38783, 4>>, <<728418, 870690, 782362, 7>>,
      <<977449, 174260, 693660, 4>>, <<210946, 659717, 641660, 6>>,
      <<293849, 406898, 734793, 6>>, <<504370, 411082, 1014791, 7>>,
      <<223099, 676014, 575039, 3>>, <<608216, 476931, 47101, 2>>,
      <<843897, 658888, 204721, 2>>, <<618103, 273276, 439859, 1>>,
      <<426023, 40318, 866729, 4>>, <<715997, 373148, 272232, 1>>,
      <<112461, 862441, 826476, 1>>, <<866900, 495840, 115195, 1>>,
      <<767505, 777089, 944083, 7>>, <<451089, 55455, 235260, 5>>,
      <<650018, 1030916, 360108, 4>>, <<347605, 638806, 909719, 1>>,
      <<862410, 685445, 869228, 5>>, <<579961, 549665, 251874, 5>>,
      <<857669, 249081, 1025982, 2>>, <<969904, 923577, 1030055, 1>>,
      <<639618, 847250, 731935, 2>>, <<274701, 226790, 547472, 5>>,
      <<163261, 90386, 734058, 4>>, <<553165, 1006511, 223525, 6>>,
      <<291166, 152760, 254160, 4>>, <<102983, 481138, 528069, 0>>,
      <<776561, 62863, 483044, 1>>, <<900321, 222650, 882892, 3>>,
      <<12949, 485433, 300448, 0>>, <<670547, 865174, 1018304, 0>>,
      <<559270, 116877, 236456, 6>>, <<829313, 640885, 1027981, 3>>,
      <<862355, 259353, 705549, 6>>, <<1015236, 887933, 130609, 0>>,
      <<906971, 13191, 224640, 0>>, <<133783, 1013378, 788001, 0>>,
      <<534279, 837536, 644776, 5>>, <<423264, 176004, 715351, 2>>,
      <<915907, 224415, 823553, 1>>, <<230882, 1040657, 474845, 4>>,
      <<231391, 666218, 650681, 7>>, <<390907, 503244, 349905, 5>>,
      <<566215, 1021618, 468745, 7>>, <<904810, 984104, 339305, 5>>,
      <<180758, 780713, 834484, 1>>, <<269405, 1010863, 997294, 4>>,
      <<502168, 68829, 213777, 5>>, <<794058, 940860, 818205, 3>>,
      <<961497, 685605, 295697, 0>>, <<532012, 737482, 975900, 5>>,
      <<901116, 429649, 211035, 4>>, <<631551, 462159, 223775, 5>>,
      <<52060, 758395, 715468, 4>>, <<4324, 267838, 1039790, 3>>,
      <<597728, 338572, 950100, 0>>, <<462027, 345481, 942385, 7>>,
      <<347253, 45312, 754204, 0>>, <<263688, 73624, 279759, 4>>,
      <<1010509, 685570, 341687, 2>>, <<457087, 875026, 202630, 3>>,
      <<187283, 460855, 633293, 4>>, <<283098, 30018, 517978, 5>>,
      <<364804, 53894, 320929, 2>>, <<583343, 835467, 9451, 1>>,
      <<206115, 210959, 529276, 0>>, <<934495, 101013, 172817, 3>>,
      <<11038, 398344, 877579, 3>>, <<728159, 855826, 425532, 1>>,
      <<702887, 952315, 200841, 0>>, <<919617, 736163, 72699, 7>>,
      <<840555, 708817, 753603, 3>>, <<481731, 890507, 1028852, 3>>,
      <<381442, 353424, 820341, 4>>, <<457347, 173603, 43019, 6>>,
      <<211683, 422312, 435640, 0>>, <<1041805, 167608, 614536, 7>>,
      <<124695, 652658, 207819, 0>>, <<923358, 941511, 184868, 1>>,
      <<54421, 533790, 648843, 2>>, <<723107, 479372, 770122, 2>>,
      <<171301, 681091, 391221, 0>>, <<793000, 1014142, 862105, 4>>,
      <<191760, 788335, 277165, 4>>, <<288535, 927614, 603517, 0>>,
      <<826732, 715619, 1014023, 2>>, <<744245, 917581, 511595, 2>>,
      <<782808, 167317, 769794, 1>>, <<111459, 504414, 930273, 2>>,
      <<899365, 649559, 256322, 2>>, <<944165, 701383, 331359, 1>>,
      <<1005875, 465913, 715318, 2>>, <<135212, 275347, 185071, 3>>,
      <<1034433, 126071, 884434, 0>>, <<942663, 528200, 679698, 6>>,
      <<110146, 843569, 505671, 1>>, <<689038, 60063, 262, 6>>,
      <<851076, 574908, 829264, 2>>, <<325987, 541680, 240288, 2>>,
      <<775077, 675470, 608759, 7>>, <<122732, 913364, 165739, 2>>,
      <<433788, 323710, 74866, 4>>, <<698036, 992213, 1001229, 3>>,
      <<364728, 133535, 628789, 2>>, <<353597, 1000841, 117904, 1>>,
      <<587985, 662194, 218381, 0>>, <<734427, 377521, 541388, 7>>,
      <<820224, 223562, 571291, 0>>, <<618028, 47183, 1012437, 3>>,
      <<587152, 1019568, 290937, 1>>, <<329842, 137248, 617655, 6>>,
      <<447911, 826051, 297051, 5>>, <<956385, 743327, 833672, 6>>,
      <<320765, 66848, 169090, 6>>, <<603905, 33131, 847737, 3>>,
      <<222550, 158689, 894842, 3>>, <<895016, 78157, 757638, 7>>,
      <<941007, 753722, 565943, 0>>, <<143680, 126211, 247977, 5>>,
      <<519230, 658310, 458753, 0>>, <<253413, 1022729, 325313, 6>>,
      <<754552, 969664, 919659, 0>>, <<1047751, 621574, 947537, 1>>,
      <<132344, 975695, 288517, 2>>, <<403020, 535889, 496245, 4>>,
      <<398140, 673620, 254331, 3>>, <<701666, 112074, 212753, 2>>,
      <<206174, 90436, 146830, 2>>, <<33180, 734285, 586024, 4>>,
      <<729165, 1029018, 839970, 6>>, <<997034, 782904, 796944, 5>>,
      <<1022906, 69125, 44716, 1>>, <<273098, 721150, 873654, 1>>,
      <<1035723, 231328, 560996, 6>>, <<472585, 389140, 285216, 4>>,
      <<575533, 584555, 485613, 4>>, <<861100, 54335, 140690, 7>>,
      <<96612, 370856, 376237, 2>>, <<88747, 981904, 965788, 7>>,
      <<684861, 588366, 794343, 3>>, <<598692, 857943, 200325, 6>>,
      <<130593, 810504, 70205, 6>>, <<478822, 67478, 820929, 5>>,
      <<702971, 261009, 596119, 0>>, <<887850, 351398, 54510, 0>>,
      <<374197, 447777, 327751, 5>>, <<683306, 736814, 807016, 7>>,
      <<248709, 69074, 23977, 2>>, <<1013595, 70505, 498526, 1>>,
      <<387799, 477142, 772210, 2>>, <<105959, 697004, 440963, 1>>,
      <<27605, 68922, 140679, 2>>, <<213991, 889193, 179451, 0>>,
      <<746099, 627270, 585421, 0>>, <<787202, 111315, 215856, 2>>,
      <<126143, 381075, 811273, 3>>, <<279704, 927038, 130026, 4>>,
      <<165904, 451485, 784597, 1>>, <<337776, 206680, 983646, 6>>,
      <<373357, 244842, 754136, 3>>, <<567147, 988981, 265786, 7>>,
      <<96311, 397506, 656529, 5>>, <<31674, 323223, 144576, 3>>,
      <<181028, 531697, 579188, 6>>, <<922847, 28973, 901544, 3>>,
      <<386053, 22054, 411341, 1>>, <<909859, 548837, 650587, 4>>,
      <<313856, 198993, 13542, 4>>, <<387517, 695971, 351409, 2>>,
      <<577356, 704833, 219229, 0>>, <<466426, 747438, 442342, 4>>,
      <<267672, 526680, 908906, 6>>, <<67795, 477798, 804736, 0>>,
      <<393668, 165010, 652539, 4>>, <<502968, 632414, 794398, 6>>,
      <<238431, 134666, 312306, 4>>, <<396670, 621249, 279079, 4>>,
      <<863253, 368922, 638677, 2>>, <<175245, 183781, 638398, 2>>,
      <<588556, 852323, 149614, 2>>, <<151640, 907514, 780575, 7>>,
      <<577360, 303633, 853705, 6>>, <<412133, 761803, 924146, 3>>,
      <<1042178, 855518, 893712, 6>>, <<485488, 104446, 898262, 1>>,
      <<322403, 449864, 108777, 2>>, <<547094, 1038383, 163901, 2>>,
      <<281670, 281974, 662026, 3>>, <<174690, 572245, 664856, 1>>,
      <<48401, 101474, 671403, 7>>, <<60057, 323025, 250447, 3>>,
      <<445548, 153171, 552249, 3>>, <<762344, 651186, 32373, 6>>,
      <<811121, 251846, 138939, 1>>, <<420143, 35064, 440939, 1>>,
      <<971385, 962223, 179498, 3>>, <<725164, 913210, 462018, 3>>,
      <<449323, 543499, 728082, 2>>, <<917394, 898491, 513220, 5>>,
      <<9246, 592394, 1006465, 3>>, <<53166, 284646, 752118, 1>>,
      <<532113, 575809, 23601, 2>>, <<254933, 465667, 295078, 3>>,
      <<698197, 389051, 358805, 7>>, <<438487, 1010956, 489417, 2>>,
      <<404547, 798566, 659233, 2>>, <<433084, 771160, 165556, 4>>,
      <<971337, 728198, 909926, 3>>, <<606917, 585344, 366151, 0>>,
      <<437787, 570094, 1037153, 6>>, <<911991, 238565, 985095, 3>>,
      <<946607, 852438, 948295, 0>>, <<764670, 719951, 860033, 4>>,
      <<575808, 811127, 310897, 2>>, <<693793, 913478, 901814, 1>>,
      <<1010895, 604496, 37966, 5>>, <<212999, 16874, 182119, 6>>,
      <<358086, 823814, 138233, 5>>, <<89681, 179575, 420730, 0>>,
      <<603713, 248007, 694133, 7>>, <<681444, 104324, 187052, 5>>,
      <<260075, 47047, 512785, 0>>, <<272823, 261068, 420647, 2>>,
      <<349194, 820647, 405549, 1>>, <<451806, 458917, 540883, 4>>,
      <<23551, 16333, 427859, 5>>, <<206216, 27230, 769773, 2>>,
      <<223802, 159622, 363109, 7>>, <<401464, 896654, 114298, 0>>,
      <<324618, 816572, 636094, 4>>, <<1032643, 843945, 817769, 5>>,
      <<764516, 245933, 606085, 7>>, <<644534, 415971, 936120, 3>>,
      <<510853, 560944, 144332, 5>>, <<451588, 353908, 128140, 0>>,
      <<70034, 193505, 452395, 6>>, <<209877, 382900, 975789, 6>>,
      <<320350, 44020, 781304, 3>>, <<407340, 1024665, 151357, 3>>,
      <<207183, 874573, 395520, 2>>, <<6088, 32062, 1029015, 4>>,
      <<455223, 37029, 212177, 5>>, <<23875, 818774, 713082, 7>>,
      <<869401, 454890, 573456, 4>>, <<680126, 14258, 637864, 0>>,
      <<415101, 246058, 629144, 6>>, <<811857, 564559, 650418, 2>>,
      <<560418, 798856, 806462, 5>>, <<87719, 575425, 299544, 2>>,
      <<547344, 491983, 484610, 4>>, <<68420, 736028, 941405, 0>>,
      <<597687, 402362, 376822, 1>>, <<40037, 768575, 92712, 7>>,
      <<995569, 31890, 521334, 5>>, <<499117, 492360, 918672, 1>>,
      <<749721, 620893, 397765, 2>>, <<363171, 274775, 685255, 1>>,
      <<995897, 262422, 224588, 5>>, <<890832, 809082, 152474, 5>>,
      <<612803, 483112, 989718, 1>>, <<951076, 1005081, 814456, 0>>,
      <<1046445, 939582, 717263, 2>>, <<609053, 77404, 1023266, 3>>,
      <<505375, 288691, 918077, 7>>, <<977259, 711358, 699254, 7>>,
      <<746193, 891174, 1046877, 4>>, <<187254, 680471, 696952, 3>>,
      <<575591, 938396, 623275, 1>>, <<361854, 581407, 311825, 3>>,
      <<224384, 746497, 684918, 7>>, <<712239, 313897, 567248, 1>>,
      <<518014, 722135, 892692, 6>>, <<870305, 18622, 736685, 4>>,
      <<864817, 936241, 827109, 4>>, <<212234, 676927, 718059, 3>>,
      <<252198, 657207, 604847, 7>>, <<236082, 65131, 552614, 1>>,
      <<221670, 325222, 204596, 6>>, <<18891, 902220, 138430, 7>>,
      <<939011, 659125, 325458, 4>>, <<66848, 927700, 990105, 2>>,
      <<574429, 659035, 599872, 5>>, <<289943, 679860, 326734, 0>>,
      <<1042342, 521338, 880216, 2>>, <<230564, 79800, 939052, 5>>,
      <<7772, 63411, 659452, 2>>, <<887540, 196773, 132423, 0>>,
      <<901241, 794759, 247353, 5>>, <<666550, 689929, 673404, 0>>,
      <<669406, 441165, 148155, 6>>, <<590710, 340460, 31152, 6>>,
      <<541687, 626113, 363727, 0>>, <<110273, 97025, 268212, 0>>,
      <<877595, 327437, 843485, 6>>, <<649266, 164404, 800647, 0>>,
      <<518395, 557422, 389307, 5>>, <<574196, 295165, 374352, 0>>,
      <<396141, 472311, 869802, 7>>, <<133140, 546109, 614978, 5>>,
      <<583620, 655766, 3627, 4>>, <<483328, 760383, 491033, 0>>,
      <<262924, 587286, 857941, 1>>, <<443807, 297998, 619825, 7>>,
      <<776259, 995059, 686034, 1>>, <<123247, 579696, 421560, 6>>,
      <<558696, 844610, 357095, 5>>, <<120327, 726345, 757122, 6>>,
      <<769620, 684462, 508517, 7>>, <<957959, 906995, 608221, 4>>,
      <<611718, 406983, 167422, 6>>, <<1046939, 236867, 157502, 2>>,
      <<849186, 449656, 228872, 6>>, <<957542, 420343, 931811, 6>>,
      <<1042488, 293450, 186299, 1>>, <<178109, 916926, 1023659, 1>>,
      <<377297, 438059, 151498, 3>>, <<727849, 337189, 648353, 5>>,
      <<357390, 43223, 823761, 7>>, <<693720, 239612, 818259, 4>>,
      <<438747, 1013560, 157435, 1>>, <<115645, 762989, 563814, 6>>,
      <<356378, 725579, 775793, 4>>, <<966733, 43498, 803837, 2>>,
      <<91477, 97870, 529457, 5>>, <<568355, 766244, 219333, 0>>,
      <<199365, 776206, 718455, 2>>, <<32655, 162383, 825714, 7>>,
      <<57680, 383435, 542924, 2>>, <<301889, 125710, 264817, 6>>,
      <<670072, 655836, 326847, 6>>, <<771972, 196598, 527019, 1>>,
      <<190046, 330404, 613479, 3>>, <<390132, 313705, 557034, 2>>,
      <<410250, 95391, 333366, 1>>, <<991636, 600473, 620501, 4>>,
      <<221176, 892777, 282982, 4>>, <<203945, 665844, 521475, 2>>,
      <<921836, 800027, 119715, 5>>, <<562921, 524642, 358880, 7>>,
      <<10276, 230834, 374249, 6>>, <<50700, 304539, 768542, 7>>,
      <<700935, 361114, 581221, 2>>, <<735278, 580728, 122372, 6>>,
      <<712663, 617671, 283482, 7>>, <<979003, 636725, 939937, 7>>,
      <<9670, 238364, 630794, 3>>>>

\* The exclusive or of two naturals, bit by bit.
RECURSIVE XorBits(_, _)
XorBits(a, b) ==
    IF a = 0 THEN b
    ELSE IF b = 0 THEN a
    ELSE ((a + b) % 2) + 2 * XorBits(a \div 2, b \div 2)

\* The same for two values below 2^5, computed once.
XorTable == [a \in 0..31 |-> [b \in 0..31 |-> XorBits(a, b)]]

\* The exclusive or of two chunks (values below 2^20), five bits at a time.
Xor(a, b) ==
    XorTable[a % 32][b % 32]
    + 32 * XorTable[(a \div 32) % 32][(b \div 32) % 32]
    + 1024 * XorTable[(a \div 1024) % 32][(b \div 1024) % 32]
    + 32768 * XorTable[a \div 32768][b \div 32768]

\* int64(x) << 40 ^ int64(y) << 20 ^ int64(z) for three 31-bit values.
SeedWord(x, y, z) ==
    <<z % Two20, Xor(z \div Two20, y % Two20), Xor(y \div Two20, x % Two20),
      (x \div Two20) % 8>>

XorWord(u, v) ==
    <<Xor(u[1], v[1]), Xor(u[2], v[2]), Xor(u[3], v[3]), Xor(u[4], v[4])>>

\* The sum of two words modulo 2^63.
AddWord(u, v) ==
    LET s1 == u[1] + v[1]
        s2 == u[2] + v[2] + (s1 \div Two20)
        s3 == u[3] + v[3] + (s2 \div Two20)
    IN <<s1 % Two20, s2 % Two20, s3 % Two20,
         (u[4] + v[4] + (s3 \div Two20)) % 8>>

\* The n values seedrand yields in turn from x (n >= 1), built by halves.
RECURSIVE SeedrandChain(_, _)
SeedrandChain(x, n) ==
    IF n = 1 THEN <<Seedrand(x)>>
    ELSE LET left == SeedrandChain(x, n \div 2)
         IN left \o SeedrandChain(left[n \div 2], n - (n \div 2))

\* The loop of rngSource.Seed: the first 20 values of the chain are
\* discarded, and the next three, xored with rngCooked[i], make vec[i];
\* vec[i] of the source is position i + 1 here.  Positions lo..hi, by halves.
RECURSIVE SeedWords(_, _, _)
SeedWords(c, lo, hi) ==
    IF lo = hi
       THEN <<XorWord(SeedWord(c[3 * lo + 18], c[3 * lo + 19], c[3 * lo + 20]),
                      RngCooked[lo])>>
       ELSE SeedWords(c, lo, (lo + hi) \div 2)
            \o SeedWords(c, ((lo + hi) \div 2) + 1, hi)

\* rng.vec after rngSource.Seed with a normalised seed.
SeedVec(seed) == SeedWords(SeedrandChain(seed, 20 + 3 * RngLen), 1, RngLen)

\* The vectors of the seed of an unseeded process, of the default seed and
\* of the second seed of the runs, computed once.
SeedVecs == [seed \in {1, 42, 293} |-> SeedVec(seed)]

RngVec(seed) == IF seed \in DOMAIN SeedVecs THEN SeedVecs[seed] ELSE SeedVec(seed)

\* rand.Seed(seed): rng.tap = 0, rng.feed = rngLen - rngTap, and rng.vec a
\* function of the seed alone (vec[i] of the source is vec[i + 1] here).
SeedNop(seed, g) == g

Seed(seed, g) ==
    [tap |-> 0, feed |-> RngLen - RngTap, vec |-> RngVec(SeedNorm(seed))]

\* The state of a process that has not called rand.Seed: the generator
\* starts as after Seed(1).
RngBoot == [tap |-> 0, feed |-> RngLen - RngTap, vec |-> RngVec(1)]

\* rngSource.Uint64: tap and feed step down by one, wrapping, and vec[feed]
\* becomes vec[feed] + vec[tap], the word returned.
RngNext(g) ==
    LET tap == (g.tap + RngLen - 1) % RngLen
        feed == (g.feed + RngLen - 1) % RngLen
    IN [tap |-> tap, feed |-> feed,
        vec |-> [g.vec EXCEPT ![feed + 1] = AddWord(g.vec[feed + 1], g.vec[tap + 1])]]

\* r.Uint32() = Int63() >> 31: bits 31..62 of the word of the draw that
\* leads to state g, as <<high 16 bits, low 16 bits>>.
Uint32(g) ==
    LET w == g.vec[g.feed + 1]
    IN <<(w[3] \div 128) + 8192 * w[4], (w[2] \div 2048) + 512 * (w[3] % 128)>>

\* r.int31n(n) for 0 < n < 2^15: the high 32 bits of the 64-bit product
\* word * n; the draw is repeated while the low 32 bits of the product are
\* below (2^32 - n) mod n.
RECURSIVE Int31n(_, _)
Int31n(g, n) ==
    LET g1 == RngNext(g)
        v == Uint32(g1)
        t == v[2] * n
        u == v[1] * n + t \div Two16
        thresh == ((Two16 % n) * (Two16 % n)) % n
    IN IF u % Two16 = 0 /\ t % Two16 < thresh
          THEN Int31n(g1, n)
          ELSE [val |-> u \div Two16, rng |-> g1]

SwapOverwrite(s, i, j) == [s EXCEPT ![i] = s[j]]

\* The swap function passed to rand.Shuffle.
Swap(s, i, j) == [s EXCEPT ![i] = s[j], ![j] = s[i]]

\* rand.Shuffle(n, swap): Fisher-Yates from the last position down, with
\* j = int31n(i + 1) and swap(i, j) for i = n-1 .. 1; the positions are
\* 1-based here, so position p is index p-1 of the slice.  (int31n(n) is
\* always below n; the test makes the draw be computed before the next one.)
RECURSIVE ShuffleFrom(_, _, _)
ShuffleFrom(s, p, g) ==
    IF p < 2 THEN [list |-> s, rng |-> g]
    ELSE LET d == Int31n(g, p)
         IN IF d.val < p THEN ShuffleFrom(Swap(s, p, d.val + 1), p - 1, d.rng)
            ELSE [list |-> s, rng |-> g]

Shuffle(s, g) == ShuffleFrom(s, Len(s), g)

(***************************************************************************)
(* Converter.SplitDataset.                                                 *)
(***************************************************************************)
\* c.config.TrainSplit is a float64; the configuration names it by a ratio
\* [num, den]: the value is the float64 nearest to num/den, the one a
\* decimal literal of num/den with 17 significant digits denotes.
TrainSplitValue(cfg) == FloatOfRatio(cfg.TrainSplit.num, cfg.TrainSplit.den)

TrainCount(n, cfg) == FloatToInt(FloatMulNat(n, TrainSplitValue(cfg)))

\* Memory is a sequence of backing arrays, an array's address being its
\* position; a slice is an array with an offset, a length and a capacity.
\* The caller's slice covers the one array of the memory SplitDataset is
\* entered with.
ZeroPair == [ImagePath |-> <<>>, LabelPath |-> <<>>]

CallerSlice(ps) == [array |-> 1, off |-> 0, len |-> Len(ps), cap |-> Len(ps)]

\* The elements a slice shows.
Elems(mem, sl) == [i \in 1..sl.len |-> mem[sl.array][sl.off + i]]

\* shuffled := the most recent array of the memory instead of a new one.
MakeAliased(mem, n) ==
    [mem |-> mem,
     slice |-> [array |-> Len(mem), off |-> 0, len |-> n, cap |-> n]]

\* make([]LabelPair, n): a new array of n zero values, at an address no
\* slice refers to yet.
Make(mem, n) ==
    [mem |-> Append(mem, [i \in 1..n |-> ZeroPair]),
     slice |-> [array |-> Len(mem) + 1, off |-> 0, len |-> n, cap |-> n]]

\* copy(dst, src): the first min(len(dst), len(src)) elements of src are
\* written to the array of dst.
Copy(mem, dst, src) ==
    LET n == IF dst.len < src.len THEN dst.len ELSE src.len
    IN [mem EXCEPT ![dst.array] =
           [i \in DOMAIN @ |->
               IF i - dst.off \in 1..n
                  THEN mem[src.array][src.off + i - dst.off]
                  ELSE @[i]]]

\* The memory after the elements a slice shows were replaced by those of s:
\* the writes of the swap function, which assigns to shuffled[i] and
\* shuffled[j].
Store(mem, sl, s) ==
    [mem EXCEPT ![sl.array] =
        [i \in DOMAIN @ |->
            IF i - sl.off \in 1..sl.len THEN s[i - sl.off] ELSE @[i]]]

\* s[lo:hi] on a slice, 0-based bounds as in the source; the caller checks
\* 0 <= lo <= hi <= cap.
Reslice(sl, lo, hi) ==
    [array |-> sl.array, off |-> sl.off + lo, len |-> hi - lo,
     cap |-> sl.cap - lo]

\* trainPairs := shuffled[:trainCount]; valPairs := shuffled[trainCount:]
\* on memory mem, the generator being left in state g.  A slice bound
\* outside 0..cap panics.  input is the caller's slice as it reads then.
SplitSlices(mem, pairsSlice, shuffled, trainCount, g) ==
    IF trainCount < 0 \/ trainCount > shuffled.cap
       THEN [panic |-> TRUE, train |-> <<>>, val |-> <<>>,
             shuffled |-> Elems(mem, shuffled), rng |-> g,
             input |-> Elems(mem, pairsSlice)]
       ELSE [panic |-> FALSE,
             train |-> Elems(mem, Reslice(shuffled, 0, trainCount)),
             val |-> Elems(mem, Reslice(shuffled, trainCount, shuffled.len)),
             shuffled |-> Elems(mem, shuffled), rng |-> g,
             input |-> Elems(mem, pairsSlice)]

\* rand.Seed and rand.Shuffle with the swap function of shuffled, then the
\* computation of trainCount from len(shuffled).
SplitShuffled(mem, pairsSlice, shuffled, sh, cfg) ==
    SplitSlices(Store(mem, shuffled, sh.list), pairsSlice, shuffled,
                TrainCount(shuffled.len, cfg), sh.rng)

\* copy(shuffled, pairs) on the memory and the slice that make returned.
SplitCopied(made, pairsSlice, cfg, g) ==
    SplitShuffled(Copy(made.mem, made.slice, pairsSlice), pairsSlice,
                  made.slice,
                  Shuffle(Elems(Copy(made.mem, made.slice, pairsSlice),
                                made.slice),
                          Seed(cfg.Seed, g)),
                  cfg)

\* Result of SplitDataset(ps) under configuration cfg when the global
\* generator is in state g: the two slices returned, the caller's slice as
\* it reads after the call (input), and the generator.  The panic comes
\* after the shuffle took place.
SplitDataset(ps, cfg, g) ==
    SplitCopied(Make(<<ps>>, Len(ps)), CallerSlice(ps), cfg, g)

(***************************************************************************)
(* Strings are sequences of one-character strings.  unicode.IsSpace,       *)
(* strings.TrimSpace, strings.Fields, strings.ToLower and bufio.ScanLines. *)
(***************************************************************************)
\* unicode.IsSpace: in Latin-1 the characters "\t", "\n", "\v", "\f", "\r",
\* " ", U+0085 and U+00A0; beyond it U+1680, U+2000..U+200A, U+2028, U+2029,
\* U+202F, U+205F and U+3000.  A character that a TLA+ string cannot hold is
\* written as its code point.
SpaceChars ==
    {" ", "\t", "\n", "\r", "\f", "U+000B", "U+0085", "U+00A0", "U+1680",
     "U+2000", "U+2001", "U+2002", "U+2003", "U+2004", "U+2005", "U+2006",
     "U+2007", "U+2008", "U+2009", "U+200A", "U+2028", "U+2029", "U+202F",
     "U+205F", "U+3000"}

IsSpace(c) == c \in SpaceChars

IsDigit(c) == c \in {"0", "1", "2", "3", "4", "5", "6", "7", "8", "9"}

DigitChars == <<"0", "1", "2", "3", "4", "5", "6", "7", "8", "9">>

DigitVal(c) == (CHOOSE i \in DOMAIN DigitChars : DigitChars[i] = c) - 1

UpperChars ==
    <<"A", "B", "C", "D", "E", "F", "G", "H", "I", "J", "K", "L", "M",
      "N", "O", "P", "Q", "R", "S", "T", "U", "V", "W", "X", "Y", "Z">>

LowerChars ==
    <<"a", "b", "c", "d", "e", "f", "g", "h", "i", "j", "k", "l", "m",
      "n", "o", "p", "q", "r", "s", "t", "u", "v", "w", "x", "y", "z">>

\* The lower case of an ASCII letter, as strconv compares letters.
LowerASCII(c) ==
    IF \E i \in DOMAIN UpperChars : UpperChars[i] = c
       THEN LowerChars[CHOOSE i \in DOMAIN UpperChars : UpperChars[i] = c]
       ELSE c

ToLowerASCII(s) == [i \in DOMAIN s |-> LowerASCII(s[i])]

\* A character is written as itself when it is an ASCII character a string
\* of the model can hold, and as "U+" followed by its code point in
\* hexadecimal (four digits or more, capitals) otherwise.
CodeDigits ==
    <<"0", "1", "2", "3", "4", "5", "6", "7", "8", "9",
      "A", "B", "C", "D", "E", "F">>

CodeDigitVal ==
    [h \in {CodeDigits[i] : i \in DOMAIN CodeDigits} |->
        (CHOOSE i \in DOMAIN CodeDigits : CodeDigits[i] = h) - 1]

RECURSIVE HexNat(_)
HexNat(t) ==
    IF Len(t) = 0 THEN 0
    ELSE 16 * HexNat(SubSeq(t, 1, Len(t) - 1))
         + CodeDigitVal[SubSeq(t, Len(t), Len(t))]

\* The code point of a character written "U+...".
CodePoint(c) == HexNat(SubSeq(c, 3, Len(c)))

RECURSIVE HexText(_, _)
HexText(n, width) ==
    IF n = 0 /\ width <= 0 THEN ""
    ELSE HexText(n \div 16, width - 1) \o CodeDigits[(n % 16) + 1]

\* The character of a code point that is a lower-case ASCII letter or lies
\* above U+007F.
RuneChar(n) ==
    IF n \in 97..122 THEN LowerChars[n - 96] ELSE "U+" \o HexText(n, 4)

\* unicode.UpperLower: the delta of a range of alternating upper- and
\* lower-case letters.
UpperLower == 1114112

\* The ranges of unicode.CaseRanges above U+007F whose lower-case delta is
\* not zero, as <<Lo, Hi, delta to lower case>> (Unicode 14).
CaseRanges ==
    <<<<192, 214, 32>>, <<216, 222, 32>>, <<256, 303, UpperLower>>,
      <<304, 304, -199>>, <<306, 311, UpperLower>>, <<313, 328, UpperLower>>,
      <<330, 375, UpperLower>>, <<376, 376, -121>>, <<377, 382, UpperLower>>,
      <<385, 385, 210>>, <<386, 389, UpperLower>>, <<390, 390, 206>>,
      <<391, 391, 1>>, <<393, 394, 205>>, <<395, 395, 1>>, <<398, 398, 79>>,
      <<399, 399, 202>>, <<400, 400, 203>>, <<401, 401, 1>>,
      <<403, 403, 205>>, <<404, 404, 207>>, <<406, 406, 211>>,
      <<407, 407, 209>>, <<408, 408, 1>>, <<412, 412, 211>>,
      <<413, 413, 213>>, <<415, 415, 214>>, <<416, 421, UpperLower>>,
      <<422, 422, 218>>, <<423, 423, 1>>, <<425, 425, 218>>, <<428, 428, 1>>,
      <<430, 430, 218>>, <<431, 431, 1>>, <<433, 434, 217>>,
      <<435, 438, UpperLower>>, <<439, 439, 219>>, <<440, 440, 1>>,
      <<444, 444, 1>>, <<452, 452, 2>>, <<453, 453, 1>>, <<455, 455, 2>>,
      <<456, 456, 1>>, <<458, 458, 2>>, <<459, 476, UpperLower>>,
      <<478, 495, UpperLower>>, <<497, 497, 2>>, <<498, 501, UpperLower>>,
      <<502, 502, -97>>, <<503, 503, -56>>, <<504, 543, UpperLower>>,
      <<544, 544, -130>>, <<546, 563, UpperLower>>, <<570, 570, 10795>>,
      <<571, 571, 1>>, <<573, 573, -163>>, <<574, 574, 10792>>,
      <<577, 577, 1>>, <<579, 579, -195>>, <<580, 580, 69>>, <<581, 581, 71>>,
      <<582, 591, UpperLower>>, <<880, 883, UpperLower>>, <<886, 886, 1>>,
      <<895, 895, 116>>, <<902, 902, 38>>, <<904, 906, 37>>, <<908, 908, 64>>,
      <<910, 911, 63>>, <<913, 929, 32>>, <<931, 939, 32>>, <<975, 975, 8>>,
      <<984, 1007, UpperLower>>, <<1012, 1012, -60>>, <<1015, 1015, 1>>,
      <<1017, 1017, -7>>, <<1018, 1018, 1>>, <<1021, 1023, -130>>,
      <<1024, 1039, 80>>, <<1040, 1071, 32>>, <<1120, 1153, UpperLower>>,
      <<1162, 1215, UpperLower>>, <<1216, 1216, 15>>,
      <<1217, 1230, UpperLower>>, <<1232, 1327, UpperLower>>,
      <<1329, 1366, 48>>, <<4256, 4293, 7264>>, <<4295, 4295, 7264>>,
      <<4301, 4301, 7264>>, <<5024, 5103, 38864>>, <<5104, 5109, 8>>,
      <<7312, 7354, -3008>>, <<7357, 7359, -3008>>,
      <<7680, 7829, UpperLower>>, <<7838, 7838, -7615>>,
      <<7840, 7935, UpperLower>>, <<7944, 7951, -8>>, <<7960, 7965, -8>>,
      <<7976, 7983, -8>>, <<7992, 7999, -8>>, <<8008, 8013, -8>>,
      <<8025, 8025, -8>>, <<8027, 8027, -8>>, <<8029, 8029, -8>>,
      <<8031, 8031, -8>>, <<8040, 8047, -8>>, <<8072, 8079, -8>>,
      <<8088, 8095, -8>>, <<8104, 8111, -8>>, <<8120, 8121, -8>>,
      <<8122, 8123, -74>>, <<8124, 8124, -9>>, <<8136, 8139, -86>>,
      <<8140, 8140, -9>>, <<8152, 8153, -8>>, <<8154, 8155, -100>>,
      <<8168, 8169, -8>>, <<8170, 8171, -112>>, <<8172, 8172, -7>>,
      <<8184, 8185, -128>>, <<8186, 8187, -126>>, <<8188, 8188, -9>>,
      <<8486, 8486, -7517>>, <<8490, 8490, -8383>>, <<8491, 8491, -8262>>,
      <<8498, 8498, 28>>, <<8544, 8559, 16>>, <<8579, 8579, 1>>,
      <<9398, 9423, 26>>, <<11264, 11311, 48>>, <<11360, 11360, 1>>,
      <<11362, 11362, -10743>>, <<11363, 11363, -3814>>,
      <<11364, 11364, -10727>>, <<11367, 11372, UpperLower>>,
      <<11373, 11373, -10780>>, <<11374, 11374, -10749>>,
      <<11375, 11375, -10783>>, <<11376, 11376, -10782>>, <<11378, 11378, 1>>,
      <<11381, 11381, 1>>, <<11390, 11391, -10815>>,
      <<11392, 11491, UpperLower>>, <<11499, 11502, UpperLower>>,
      <<11506, 11506, 1>>, <<42560, 42605, UpperLower>>,
      <<42624, 42651, UpperLower>>, <<42786, 42799, UpperLower>>,
      <<42802, 42863, UpperLower>>, <<42873, 42876, UpperLower>>,
      <<42877, 42877, -35332>>, <<42878, 42887, UpperLower>>,
      <<42891, 42891, 1>>, <<42893, 42893, -42280>>,
      <<42896, 42899, UpperLower>>, <<42902, 42921, UpperLower>>,
      <<42922, 42922, -42308>>, <<42923, 42923, -42319>>,
      <<42924, 42924, -42315>>, <<42925, 42925, -42305>>,
      <<42926, 42926, -42308>>, <<42928, 42928, -42258>>,
      <<42929, 42929, -42282>>, <<42930, 42930, -42261>>,
      <<42931, 42931, 928>>, <<42932, 42947, UpperLower>>,
      <<42948, 42948, -48>>, <<42949, 42949, -42307>>,
      <<42950, 42950, -35384>>, <<42951, 42954, UpperLower>>,
      <<42960, 42960, 1>>, <<42966, 42969, UpperLower>>, <<42997, 42997, 1>>,
      <<65313, 65338, 32>>, <<66560, 66599, 40>>, <<66736, 66771, 40>>,
      <<66928, 66938, 39>>, <<66940, 66954, 39>>, <<66956, 66962, 39>>,
      <<66964, 66965, 39>>, <<68736, 68786, 64>>, <<71840, 71871, 32>>,
      <<93760, 93791, 32>>, <<125184, 125217, 34>>>>

\* unicode.ToLower of a code point above U+007F.
ToLowerRune(n) ==
    LET hits == {i \in DOMAIN CaseRanges :
                    CaseRanges[i][1] <= n /\ n <= CaseRanges[i][2]}
    IN IF hits = {} THEN n
       ELSE LET r == CaseRanges[CHOOSE i \in hits : TRUE]
            IN IF r[3] = UpperLower
                  THEN r[1] + 2 * ((n - r[1]) \div 2) + 1
                  ELSE n + r[3]

\* unicode.ToLower.
ToLowerChar(c) ==
    IF Len(c) = 1 THEN LowerASCII(c)
    ELSE IF CodePoint(c) < 128 THEN c
    ELSE IF ToLowerRune(CodePoint(c)) = CodePoint(c) THEN c
    ELSE RuneChar(ToLowerRune(CodePoint(c)))

ToLower(s) == [i \in DOMAIN s |-> ToLowerChar(s[i])]

NoTrim(s) == s

TrimSpace(s) ==
    LET keep == {i \in DOMAIN s : ~IsSpace(s[i])}
    IN IF keep = {} THEN <<>>
       ELSE SubSeq(s, CHOOSE i \in keep : \A k \in keep : i <= k,
                      CHOOSE i \in keep : \A k \in keep : k <= i)

\* Length of the longest prefix of s without a character satisfying the test.
RunLength(s, stop) ==
    LET hits == {i \in DOMAIN s : s[i] \in stop}
    IN IF hits = {} THEN Len(s)
       ELSE (CHOOSE i \in hits : \A k \in hits : i <= k) - 1

RECURSIVE Fields(_)
Fields(s) ==
    IF s = <<>> THEN <<>>
    ELSE IF IsSpace(s[1]) THEN Fields(Tail(s))
    ELSE LET n == RunLength(s, SpaceChars)
         IN <<SubSeq(s, 1, n)>> \o Fields(SubSeq(s, n + 1, Len(s)))

\* The number of bytes of s in UTF-8: a character takes one byte below
\* U+0080, two below U+0800, three below U+10000 and four from there.
ByteLen(s) ==
    LET two == {i \in DOMAIN s : Len(s[i]) > 1 /\ CodePoint(s[i]) >= 128}
        three == {i \in two : CodePoint(s[i]) >= 2048}
        four == {i \in three : CodePoint(s[i]) >= 65536}
    IN Len(s) + Cardinality(two) + Cardinality(three) + Cardinality(four)

\* bufio.MaxScanTokenSize, the buffer limit of bufio.NewScanner.
MaxScanTokenSize == 65536

\* The scanner gives up with ErrTooLong when its buffer is full without
\* holding a whole line: the bytes before the line's "\n" (or before the end
\* of the data) number MaxScanTokenSize or more.
TooLong(data) == ByteLen(SubSeq(data, 1, RunLength(data, {"\n"}))) >= MaxScanTokenSize

\* bufio.ScanLines: the lines of a byte sequence, each without its "\n" and
\* without one trailing "\r"; a final unterminated non-empty line counts.
DropCR(s) == IF s # <<>> /\ Last(s) = "\r" THEN Front(s) ELSE s

\* The lines scanner.Scan() delivers before it returns false: all of them, or
\* those before the first line that is too long.
RECURSIVE ScanLines(_)
ScanLines(data) ==
    IF data = <<>> \/ TooLong(data) THEN <<>>
    ELSE LET n == RunLength(data, {"\n"})
         IN <<DropCR(SubSeq(data, 1, n))>>
               \o ScanLines(SubSeq(data, n + 2, Len(data)))

\* scanner.Err() # nil after the loop over a regular file's bytes.
RECURSIVE ScanErr(_)
ScanErr(data) ==
    IF data = <<>> THEN FALSE
    ELSE TooLong(data)
           \/ ScanErr(SubSeq(data, RunLength(data, {"\n"}) + 2, Len(data)))

(***************************************************************************)
(* strconv.Atoi and strconv.ParseFloat(s, 64).  A number's digits are a    *)
(* sequence of digit values without leading zeros, and a magnitude is      *)
(* 0.d1 d2 ... dn * base^point, so that texts of any length compare        *)
(* exactly.                                                                *)
(***************************************************************************)
IsSign(c) == c \in {"+", "-"}

AllDigits(s) == s # <<>> /\ \A i \in DOMAIN s : IsDigit(s[i])

HexLetters == <<"a", "b", "c", "d", "e", "f">>

IsHexLetter(c) == \E i \in DOMAIN HexLetters : HexLetters[i] = LowerASCII(c)

\* A mantissa digit: 0-9, and a-f or A-F after the prefix 0x.
IsMantDigit(c, hex) == IsDigit(c) \/ (hex /\ IsHexLetter(c))

MantDigitVal(c) ==
    IF IsDigit(c) THEN DigitVal(c)
    ELSE 9 + (CHOOSE i \in DOMAIN HexLetters : HexLetters[i] = LowerASCII(c))

\* Digit values without the leading zeros.
StripZeros(d) ==
    LET nz == {i \in DOMAIN d : d[i] # 0}
    IN IF nz = {} THEN <<>>
       ELSE SubSeq(d, CHOOSE i \in nz : \A k \in nz : i <= k, Len(d))

\* 0.a * base^pa > 0.b * base^pb for digit sequences that start with a
\* digit other than 0.
MagGreater(a, pa, b, pb) ==
    LET n == IF Len(a) > Len(b) THEN Len(a) ELSE Len(b)
        da(i) == IF i <= Len(a) THEN a[i] ELSE 0
        db(i) == IF i <= Len(b) THEN b[i] ELSE 0
        diff == {i \in 1..n : da(i) # db(i)}
    IN \/ pa > pb
       \/ /\ pa = pb
          /\ diff # {}
          /\ LET first == CHOOSE i \in diff : \A k \in diff : i <= k
             IN da(first) > db(first)

\* The largest int of the 64-bit builds (amd64, arm64) and the magnitude of
\* the smallest one.
MaxIntDigits == <<9, 2, 2, 3, 3, 7, 2, 0, 3, 6, 8, 5, 4, 7, 7, 5, 8, 0, 7>>

MinIntDigits == <<9, 2, 2, 3, 3, 7, 2, 0, 3, 6, 8, 5, 4, 7, 7, 5, 8, 0, 8>>

\* strconv.Atoi(s) returns a nil error: an optional sign and decimal digits
\* only, of a value that fits int.
AtoiOk(s) ==
    /\ s # <<>>
    /\ LET body == IF IsSign(s[1]) THEN Tail(s) ELSE s
           limit == IF s[1] = "-" THEN MinIntDigits ELSE MaxIntDigits
       IN /\ AllDigits(body)
          /\ LET d == StripZeros([i \in DOMAIN body |-> DigitVal(body[i])])
             IN ~MagGreater(d, Len(d), limit, Len(limit)) \/ d = <<>>

\* The exponent readFloat accumulates: digits are taken in while the value
\* is below 10000.
ExpCap == 10000

RECURSIVE ExpValue(_, _)
ExpValue(digs, e) ==
    IF digs = <<>> THEN e
    ELSE ExpValue(Tail(digs), IF e < ExpCap THEN 10 * e + digs[1] ELSE e)

\* underscoreOK: an underscore stands between two digits, or between the
\* prefix 0x and a digit.
UnderscoreOK(body, hex) ==
    \A i \in DOMAIN body :
        body[i] = "_" =>
            /\ i > 1
            /\ IsMantDigit(body[i - 1], hex) \/ (hex /\ i = 3)
            /\ i < Len(body)
            /\ IsMantDigit(body[i + 1], hex)

\* The four bits of hexadecimal digit values, most significant first.
RECURSIVE HexBits(_)
HexBits(d) ==
    IF d = <<>> THEN <<>>
    ELSE <<d[1] \div 8, (d[1] \div 4) % 2, (d[1] \div 2) % 2, d[1] % 2>>
            \o HexBits(Tail(d))

\* The decimal magnitudes that decide the rounding to float64:
\* 1 + 2^-53 (a value above it rounds to more than 1, a value up to it to 1 or
\* less), 2^-1075 (a value up to it rounds to 0) and 2^1024 - 2^970 (a value
\* from it on is out of range).
AboveOneDec ==
    [digits |-> <<1, 0, 0, 0, 0, 0, 0, 0, 0, 0, 0, 0, 0, 0, 0, 0, 1, 1, 1, 0, 2, 2, 3, 0, 2, 4, 6, 2, 5, 1, 5, 6, 5, 4, 0, 4,
                 2, 3, 6, 3, 1, 6, 6, 8, 0, 9, 0, 8, 2, 0, 3, 1, 2, 5>>,
     point |-> 1]

HalfSubnormalDec ==
    [digits |-> <<2, 4, 7, 0, 3, 2, 8, 2, 2, 9, 2, 0, 6, 2, 3, 2, 7, 2, 0, 8, 8, 2, 8, 4, 3, 9, 6, 4, 3, 4, 1, 1, 0, 6, 8, 6,
                 1, 8, 2, 5, 2, 9, 9, 0, 1, 3, 0, 7, 1, 6, 2, 3, 8, 2, 2, 1, 2, 7, 9, 2, 8, 4, 1, 2, 5, 0, 3, 3, 7, 7, 5, 3,
                 6, 3, 5, 1, 0, 4, 3, 7, 5, 9, 3, 2, 6, 4, 9, 9, 1, 8, 1, 8, 0, 8, 1, 7, 9, 9, 6, 1, 8, 9, 8, 9, 8, 2, 8, 2,
                 3, 4, 7, 7, 2, 2, 8, 5, 8, 8, 6, 5, 4, 6, 3, 3, 2, 8, 3, 5, 5, 1, 7, 7, 9, 6, 9, 8, 9, 8, 1, 9, 9, 3, 8, 7,
                 3, 9, 8, 0, 0, 5, 3, 9, 0, 9, 3, 9, 0, 6, 3, 1, 5, 0, 3, 5, 6, 5, 9, 5, 1, 5, 5, 7, 0, 2, 2, 6, 3, 9, 2, 2,
                 9, 0, 8, 5, 8, 3, 9, 2, 4, 4, 9, 1, 0, 5, 1, 8, 4, 4, 3, 5, 9, 3, 1, 8, 0, 2, 8, 4, 9, 9, 3, 6, 5, 3, 6, 1,
                 5, 2, 5, 0, 0, 3, 1, 9, 3, 7, 0, 4, 5, 7, 6, 7, 8, 2, 4, 9, 2, 1, 9, 3, 6, 5, 6, 2, 3, 6, 6, 9, 8, 6, 3, 6,
                 5, 8, 4, 8, 0, 7, 5, 7, 0, 0, 1, 5, 8, 5, 7, 6, 9, 2, 6, 9, 9, 0, 3, 7, 0, 6, 3, 1, 1, 9, 2, 8, 2, 7, 9, 5,
                 5, 8, 5, 5, 1, 3, 3, 2, 9, 2, 7, 8, 3, 4, 3, 3, 8, 4, 0, 9, 3, 5, 1, 9, 7, 8, 0, 1, 5, 5, 3, 1, 2, 4, 6, 5,
                 9, 7, 2, 6, 3, 5, 7, 9, 5, 7, 4, 6, 2, 2, 7, 6, 6, 4, 6, 5, 2, 7, 2, 8, 2, 7, 2, 2, 0, 0, 5, 6, 3, 7, 4, 0,
                 0, 6, 4, 8, 5, 4, 9, 9, 9, 7, 7, 0, 9, 6, 5, 9, 9, 4, 7, 0, 4, 5, 4, 0, 2, 0, 8, 2, 8, 1, 6, 6, 2, 2, 6, 2,
                 3, 7, 8, 5, 7, 3, 9, 3, 4, 5, 0, 7, 3, 6, 3, 3, 9, 0, 0, 7, 9, 6, 7, 7, 6, 1, 9, 3, 0, 5, 7, 7, 5, 0, 6, 7,
                 4, 0, 1, 7, 6, 3, 2, 4, 6, 7, 3, 6, 0, 0, 9, 6, 8, 9, 5, 1, 3, 4, 0, 5, 3, 5, 5, 3, 7, 4, 5, 8, 5, 1, 6, 6,
                 6, 1, 1, 3, 4, 2, 2, 3, 7, 6, 6, 6, 7, 8, 6, 0, 4, 1, 6, 2, 1, 5, 9, 6, 8, 0, 4, 6, 1, 9, 1, 4, 4, 6, 7, 2,
                 9, 1, 8, 4, 0, 3, 0, 0, 5, 3, 0, 0, 5, 7, 5, 3, 0, 8, 4, 9, 0, 4, 8, 7, 6, 5, 3, 9, 1, 7, 1, 1, 3, 8, 6, 5,
                 9, 1, 6, 4, 6, 2, 3, 9, 5, 2, 4, 9, 1, 2, 6, 2, 3, 6, 5, 3, 8, 8, 1, 8, 7, 9, 6, 3, 6, 2, 3, 9, 3, 7, 3, 2,
                 8, 0, 4, 2, 3, 8, 9, 1, 0, 1, 8, 6, 7, 2, 3, 4, 8, 4, 9, 7, 6, 6, 8, 2, 3, 5, 0, 8, 9, 8, 6, 3, 3, 8, 8, 5,
                 8, 7, 9, 2, 5, 6, 2, 8, 3, 0, 2, 7, 5, 5, 9, 9, 5, 6, 5, 7, 5, 2, 4, 4, 5, 5, 5, 0, 7, 2, 5, 5, 1, 8, 9, 3,
                 1, 3, 6, 9, 0, 8, 3, 6, 2, 5, 4, 7, 7, 9, 1, 8, 6, 9, 4, 8, 6, 6, 7, 9, 9, 4, 9, 6, 8, 3, 2, 4, 0, 4, 9, 7,
                 0, 5, 8, 2, 1, 0, 2, 8, 5, 1, 3, 1, 8, 5, 4, 5, 1, 3, 9, 6, 2, 1, 3, 8, 3, 7, 7, 2, 2, 8, 2, 6, 1, 4, 5, 4,
                 3, 7, 6, 9, 3, 4, 1, 2, 5, 3, 2, 0, 9, 8, 5, 9, 1, 3, 2, 7, 6, 6, 7, 2, 3, 6, 3, 2, 8, 1, 2, 5>>,
     point |-> -323]

OverflowDec ==
    [digits |-> <<1, 7, 9, 7, 6, 9, 3, 1, 3, 4, 8, 6, 2, 3, 1, 5, 8, 0, 7, 9, 3, 7, 2, 8, 9, 7, 1, 4, 0, 5, 3, 0, 3, 4, 1, 5,
                 0, 7, 9, 9, 3, 4, 1, 3, 2, 7, 1, 0, 0, 3, 7, 8, 2, 6, 9, 3, 6, 1, 7, 3, 7, 7, 8, 9, 8, 0, 4, 4, 4, 9, 6, 8,
                 2, 9, 2, 7, 6, 4, 7, 5, 0, 9, 4, 6, 6, 4, 9, 0, 1, 7, 9, 7, 7, 5, 8, 7, 2, 0, 7, 0, 9, 6, 3, 3, 0, 2, 8, 6,
                 4, 1, 6, 6, 9, 2, 8, 8, 7, 9, 1, 0, 9, 4, 6, 5, 5, 5, 5, 4, 7, 8, 5, 1, 9, 4, 0, 4, 0, 2, 6, 3, 0, 6, 5, 7,
                 4, 8, 8, 6, 7, 1, 5, 0, 5, 8, 2, 0, 6, 8, 1, 9, 0, 8, 9, 0, 2, 0, 0, 0, 7, 0, 8, 3, 8, 3, 6, 7, 6, 2, 7, 3,
                 8, 5, 4, 8, 4, 5, 8, 1, 7, 7, 1, 1, 5, 3, 1, 7, 6, 4, 4, 7, 5, 7, 3, 0, 2, 7, 0, 0, 6, 9, 8, 5, 5, 5, 7, 1,
                 3, 6, 6, 9, 5, 9, 6, 2, 2, 8, 4, 2, 9, 1, 4, 8, 1, 9, 8, 6, 0, 8, 3, 4, 9, 3, 6, 4, 7, 5, 2, 9, 2, 7, 1, 9,
                 0, 7, 4, 1, 6, 8, 4, 4, 4, 3, 6, 5, 5, 1, 0, 7, 0, 4, 3, 4, 2, 7, 1, 1, 5, 5, 9, 6, 9, 9, 5, 0, 8, 0, 9, 3,
                 0, 4, 2, 8, 8, 0, 1, 7, 7, 9, 0, 4, 1, 7, 4, 4, 9, 7, 7, 9, 2>>,
     point |-> 309]

\* The same magnitudes in binary.
AboveOneBin == [digits |-> <<1>> \o [i \in 1..52 |-> 0] \o <<1>>, point |-> 1]

HalfSubnormalBin == [digits |-> <<1>>, point |-> -1074]

OverflowBin == [digits |-> [i \in 1..54 |-> 1], point |-> 1024]

FloatSyntaxError == [ok |-> FALSE, class |-> "none", neg |-> FALSE,
                     digits |-> <<>>, point |-> 0, base |-> 10]

\* readFloat and the conversion: the text after the sign is a mantissa of
\* digits with at most one point, with the prefix 0x for a hexadecimal one,
\* and an exponent (e for a decimal mantissa, optional; p for a hexadecimal
\* one, required) with an optional sign and at least one digit.  The result:
\* ok is err == nil; class is "nan", "inf" or "finite"; a finite value is
\* (-1)^neg * 0.digits * base^point in base 10 or 2, before rounding.
Unsigned(s) == IF s # <<>> /\ IsSign(s[1]) THEN Tail(s) ELSE s

\* The length of the mantissa at the start of rest: digits, underscores and
\* at most one point.
MantLen(rest, hex) ==
    LET stops == {i \in DOMAIN rest :
                     \/ ~(IsMantDigit(rest[i], hex) \/ rest[i] \in {"_", "."})
                     \/ rest[i] = "." /\ \E k \in 1..(i - 1) : rest[k] = "."}
    IN IF stops = {} THEN Len(rest)
       ELSE (CHOOSE i \in stops : \A k \in stops : i <= k) - 1

\* The text after the mantissa is an exponent: "e" (or "p"), an optional
\* sign, a digit, then digits and underscores.
ExpOk(after, hex) ==
    /\ Len(after) >= 2
    /\ LowerASCII(after[1]) = (IF hex THEN "p" ELSE "e")
    /\ Unsigned(Tail(after)) # <<>>
    /\ IsDigit(Unsigned(Tail(after))[1])
    /\ \A c \in Range(Unsigned(Tail(after))) : IsDigit(c) \/ c = "_"

\* The value of a well-formed exponent, 0 for no exponent.
ExpOf(after) ==
    IF after = <<>> THEN 0
    ELSE LET ds == SelectSeq(Unsigned(Tail(after)), LAMBDA c : c # "_")
             e == ExpValue([i \in DOMAIN ds |-> DigitVal(ds[i])], 0)
         IN IF after[2] = "-" THEN -e ELSE e

\* The value of a well-formed number: the digits of the mantissa, intLen of
\* them before the point, scaled by the exponent e.
FloatValue(neg, hex, all, intLen, e) ==
    LET sig == StripZeros(all)
        digs == IF hex THEN StripZeros(HexBits(sig)) ELSE sig
        lead == Len(all) - Len(sig)
    IN [ok |-> TRUE, class |-> "finite", neg |-> neg, digits |-> digs,
        point |-> IF digs = <<>> THEN 0
                  ELSE IF hex
                     THEN 4 * (intLen - lead) + e - (4 * Len(sig) - Len(digs))
                  ELSE intLen - lead + e,
        base |-> IF hex THEN 2 ELSE 10]

\* The mantissa mant (underscores removed) followed by after.
ReadMantissa(neg, hex, mant, after) ==
    LET ds == SelectSeq(mant, LAMBDA c : c # ".")
    IN IF \/ ds = <<>>
          \/ (IF after = <<>> THEN hex ELSE ~ExpOk(after, hex))
          THEN FloatSyntaxError
       ELSE FloatValue(neg, hex, [i \in DOMAIN ds |-> MantDigitVal(ds[i])],
                       RunLength(mant, {"."}), ExpOf(after))

ReadUnsigned(neg, body, hex, rest) ==
    IF ~UnderscoreOK(body, hex) THEN FloatSyntaxError
    ELSE ReadMantissa(neg, hex,
                      SelectSeq(SubSeq(rest, 1, MantLen(rest, hex)),
                                LAMBDA c : c # "_"),
                      SubSeq(rest, MantLen(rest, hex) + 1, Len(rest)))

ReadPrefix(neg, body, hex) ==
    ReadUnsigned(neg, body, hex,
                 IF hex THEN SubSeq(body, 3, Len(body)) ELSE body)

ReadFloat(s) ==
    ReadPrefix(s # <<>> /\ s[1] = "-", Unsigned(s),
               /\ Len(Unsigned(s)) >= 3
               /\ Unsigned(s)[1] = "0"
               /\ LowerASCII(Unsigned(s)[2]) = "x")

\* The magnitude of a finite value is above the given decimal or binary one.
Above(v, dec, bin) ==
    /\ v.digits # <<>>
    /\ IF v.base = 10 THEN MagGreater(v.digits, v.point, dec.digits, dec.point)
       ELSE MagGreater(v.digits, v.point, bin.digits, bin.point)

OutOfRange(v) ==
    /\ v.digits # <<>>
    /\ IF v.base = 10
          THEN ~MagGreater(OverflowDec.digits, OverflowDec.point,
                           v.digits, v.point)
          ELSE ~MagGreater(OverflowBin.digits, OverflowBin.point,
                           v.digits, v.point)

\* strconv.ParseFloat(s, 64): the special values first ("nan" without a
\* sign, "inf" and "infinity" with an optional one, in any case), then a
\* number, which is a range error when it rounds to an infinity.
ParseFloat(s) ==
    LET neg == s # <<>> /\ s[1] = "-"
        body == IF s # <<>> /\ IsSign(s[1]) THEN Tail(s) ELSE s
        v == ReadFloat(s)
    IN IF ToLowerASCII(body) \in {<<"i", "n", "f">>,
                             <<"i", "n", "f", "i", "n", "i", "t", "y">>}
          THEN [ok |-> TRUE, class |-> "inf", neg |-> neg,
                digits |-> <<>>, point |-> 0, base |-> 10]
       ELSE IF ToLowerASCII(s) = <<"n", "a", "n">>
          THEN [ok |-> TRUE, class |-> "nan", neg |-> FALSE,
                digits |-> <<>>, point |-> 0, base |-> 10]
       ELSE IF v.ok /\ OutOfRange(v)
          THEN [ok |-> FALSE, class |-> "inf", neg |-> neg,
                digits |-> <<>>, point |-> 0, base |-> 10]
       ELSE v

\* coord < 0 and coord > 1 on the float64 the text rounds to: every
\* comparison with NaN is false, a negative value that rounds to -0 is not
\* below 0, and a value that rounds to 1 is not above 1.
LessThanZero(v) ==
    \/ v.class = "inf" /\ v.neg
    \/ v.class = "finite" /\ v.neg /\ Above(v, HalfSubnormalDec, HalfSubnormalBin)

GreaterThanOne(v) ==
    \/ v.class = "inf" /\ ~v.neg
    \/ v.class = "finite" /\ ~v.neg /\ Above(v, AboveOneDec, AboveOneBin)

(***************************************************************************)
(* Converter.ValidateLabels.                                               *)
(***************************************************************************)
\* One pass of the coordinate loop: parts[i] fails to parse, or is below 0
\* or above 1.
BadCoord(tok) ==
    LET v == ParseFloat(tok)
    IN ~v.ok \/ LessThanZero(v) \/ GreaterThanOne(v)

\* The loop "for i := 1; i < 5; i++" from position i on (1-based i+1): the
\* number of stats.InvalidLines++ it executes; it breaks at the first one.
RECURSIVE CoordLoopNoBreak(_, _)
CoordLoopNoBreak(parts, i) ==
    IF i > 5 THEN 0
    ELSE (IF BadCoord(parts[i]) THEN 1 ELSE 0) + CoordLoopNoBreak(parts, i + 1)

RECURSIVE CoordLoop(_, _)
CoordLoop(parts, i) ==
    IF i > 5 THEN 0
    ELSE IF BadCoord(parts[i]) THEN 1
    ELSE CoordLoop(parts, i + 1)

\* The body of the scan loop for one line: how many times it increments
\* validLines and stats.InvalidLines.
LineCounts(text) ==
    LET line == TrimSpace(text)
        parts == Fields(line)
    IN IF line = <<>> THEN [valid |-> 0, invalid |-> 0]
       ELSE IF Len(parts) # 5 THEN [valid |-> 0, invalid |-> 1]
       ELSE IF ~AtoiOk(parts[1]) THEN [valid |-> 0, invalid |-> 1]
       ELSE LET bad == CoordLoop(parts, 2)
            IN [valid |-> IF bad = 0 THEN 1 ELSE 0, invalid |-> bad]

RECURSIVE SumCounts(_)
SumCounts(lines) ==
    IF lines = <<>> THEN [valid |-> 0, invalid |-> 0]
    ELSE LET h == LineCounts(lines[1])
             t == SumCounts(Tail(lines))
         IN [valid |-> h.valid + t.valid, invalid |-> h.invalid + t.invalid]

\* ValidateFile classifying a file by its non-blank lines instead of its
\* valid lines.
ValidateFileByLines(st, data) ==
    LET c == SumCounts(ScanLines(data))
    IN IF ScanErr(data)
          THEN [st EXCEPT !.InvalidLines = @ + c.invalid + 1]
          ELSE [st EXCEPT !.InvalidLines = @ + c.invalid,
                          !.TotalAnnotations = @ + c.valid,
                          !.FilesWithAnnotations =
                              IF c.valid + c.invalid > 0 THEN @ + 1 ELSE @,
                          !.EmptyFiles =
                              IF c.valid + c.invalid > 0 THEN @ ELSE @ + 1]

\* One iteration of the loop over pairs, the label file being a regular file:
\* the scan loop counts the invalid lines as it goes; a scan that ends with an
\* error adds one more and skips the three counters after the loop.
ValidateFile(st, data) ==
    LET c == SumCounts(ScanLines(data))
    IN IF ScanErr(data)
          THEN [st EXCEPT !.InvalidLines = @ + c.invalid + 1]
          ELSE [st EXCEPT !.InvalidLines = @ + c.invalid,
                          !.TotalAnnotations = @ + c.valid,
                          !.FilesWithAnnotations =
                              IF c.valid > 0 THEN @ + 1 ELSE @,
                          !.EmptyFiles = IF c.valid > 0 THEN @ ELSE @ + 1]

\* The loop returning at the first label file that cannot be read instead of
\* going on to the next record.
RECURSIVE ValidateFromStop(_, _, _)
ValidateFromStop(st, ps, fs) ==
    IF ps = <<>> THEN st
    ELSE IF ps[1].LabelPath \notin DOMAIN fs
       THEN [st EXCEPT !.InvalidLines = @ + 1]
       ELSE ValidateFromStop(ValidateFile(st, fs[ps[1].LabelPath]), Tail(ps), fs)

\* The loop counting a label file that cannot be read as an empty file.
RECURSIVE ValidateFromAsEmpty(_, _, _)
ValidateFromAsEmpty(st, ps, fs) ==
    IF ps = <<>> THEN st
    ELSE IF ps[1].LabelPath \notin DOMAIN fs
       THEN ValidateFromAsEmpty([st EXCEPT !.InvalidLines = @ + 1,
                                           !.EmptyFiles = @ + 1],
                                Tail(ps), fs)
       ELSE ValidateFromAsEmpty(ValidateFile(st, fs[ps[1].LabelPath]),
                                Tail(ps), fs)

\* The loop over pairs: a label path that is not a regular file fails in
\* os.Open, or as a directory at the first read, and counts one invalid line.
\* (The test on the counter makes a file's statistics be computed before the
\* next file is looked at; the counter is never negative.)
RECURSIVE ValidateFrom(_, _, _)
ValidateFrom(st, ps, fs) ==
    IF ps = <<>> \/ st.InvalidLines < 0 THEN st
    ELSE IF ps[1].LabelPath \notin DOMAIN fs
       THEN ValidateFrom([st EXCEPT !.InvalidLines = @ + 1], Tail(ps), fs)
       ELSE ValidateFrom(ValidateFile(st, fs[ps[1].LabelPath]), Tail(ps), fs)

ValidateLabels(ps, fs) ==
    ValidateFrom([TotalFiles |-> Len(ps), TotalAnnotations |-> 0,
                  FilesWithAnnotations |-> 0, EmptyFiles |-> 0,
                  InvalidLines |-> 0], ps, fs)

(***************************************************************************)
(* The file system.  A path is a sequence of names, a name a sequence of   *)
(* characters; files maps the path of every regular file to its bytes and  *)
(* dirs is the set of directories.  path/filepath: Join, Base, Ext, Abs.   *)
(***************************************************************************)
NSrc == <<"s", "r", "c">>

NOut == <<"o", "u", "t">>

NWork == <<"w", "o", "r", "k">>

NImages == <<"i", "m", "a", "g", "e", "s">>

NLabels == <<"l", "a", "b", "e", "l", "s">>

NClasses == <<"c", "l", "a", "s", "s", "e", "s", ".", "t", "x", "t">>

NTrain == <<"t", "r", "a", "i", "n">>

NVal == <<"v", "a", "l">>

NDataYaml == <<"d", "a", "t", "a", ".", "y", "a", "m", "l">>

NSub == <<"s", "u", "b">>

DotTxt == <<".", "t", "x", "t">>

SourceRoot == <<NSrc>>

OutputRoot == <<NOut>>

Cwd == <<NWork>>

Nil == <<>>

NoFiles == [p \in {} |-> <<>>]

Join(dir, name) == Append(dir, name)

Base(path) == Last(path)

Abs(path) == Cwd \o path

Exists(fs, ds, p) == p \in DOMAIN fs \/ p \in ds

Prefixes(p) == {SubSeq(p, 1, k) : k \in 1..Len(p)}

IsUnder(p, root) == Len(p) > Len(root) /\ SubSeq(p, 1, Len(root)) = root

WriteFile(fs, p, data) ==
    [q \in DOMAIN fs \cup {p} |-> IF q = p THEN data ELSE fs[q]]

\* filepath.Ext: the suffix of the name from its last dot on, or "".
Ext(name) ==
    LET dots == {i \in DOMAIN name : name[i] = "."}
    IN IF dots = {} THEN <<>>
       ELSE SubSeq(name, CHOOSE i \in dots : \A k \in dots : k <= i, Len(name))

HasSuffix(s, suffix) ==
    /\ Len(s) >= Len(suffix)
    /\ SubSeq(s, Len(s) - Len(suffix) + 1, Len(s)) = suffix

TrimSuffix(s, suffix) ==
    IF HasSuffix(s, suffix) THEN SubSeq(s, 1, Len(s) - Len(suffix)) ELSE s

\* Byte order of the characters used, for the lexical order of filepath.Walk.
CharOrder ==
    <<"\t", "\n", "\r", " ", "+", "-", ".", "0", "1", "2", "3", "4", "5",
      "6", "7", "8", "9", "A", "B", "C", "D", "E", "F", "G", "H", "I", "J",
      "K", "L", "M", "N", "O", "P", "Q", "R", "S", "T", "U", "V", "W", "X",
      "Y", "Z", "_", "a", "b", "c", "d", "e", "f", "g", "h", "i", "j", "k",
      "l", "m", "n", "o", "p", "q", "r", "s", "t", "u", "v", "w", "x", "y",
      "z">>

CharRank(c) == CHOOSE i \in DOMAIN CharOrder : CharOrder[i] = c

CommonPrefixLen(a, b) ==
    LET n == IF Len(a) < Len(b) THEN Len(a) ELSE Len(b)
        same == {k \in 0..n : \A i \in 1..k : a[i] = b[i]}
    IN CHOOSE k \in same : \A m \in same : m <= k

NameLess(a, b) ==
    LET n == CommonPrefixLen(a, b)
    IN IF n = Len(a) THEN Len(b) > n
       ELSE IF n = Len(b) THEN FALSE
       ELSE CharRank(a[n + 1]) < CharRank(b[n + 1])

PathLess(p, q) ==
    LET n == CommonPrefixLen(p, q)
    IN IF n = Len(p) THEN Len(q) > n
       ELSE IF n = Len(q) THEN FALSE
       ELSE NameLess(p[n + 1], q[n + 1])

RECURSIVE SortPaths(_)
SortPaths(S) ==
    IF S = {} THEN <<>>
    ELSE LET m == CHOOSE p \in S : \A q \in S \ {p} : PathLess(p, q)
         IN <<m>> \o SortPaths(S \ {m})

\* filepath.Walk(root, fn): the regular files beneath root in the order fn
\* sees them (each directory's entries in lexical order, depth first).
WalkFiles(fs, root) == SortPaths({p \in DOMAIN fs : IsUnder(p, root)})

(***************************************************************************)
(* Converter.ValidateSourceStructure.                                      *)
(***************************************************************************)
RequiredDirsSwapped(cfg) == <<Join(cfg.SourceDir, NLabels),
                              Join(cfg.SourceDir, NImages)>>

RequiredDirs(cfg) == <<Join(cfg.SourceDir, NImages),
                       Join(cfg.SourceDir, NLabels)>>

RequiredFiles(cfg) == <<Join(cfg.SourceDir, NClasses)>>

\* The error of os.Stat(p): none for an entry that is there, ENOTDIR when a
\* proper prefix of p is a regular file, else ENOENT.
Stat(fs, ds, p) ==
    IF Exists(fs, ds, p) THEN Nil
    ELSE IF \E k \in 1..(Len(p) - 1) : SubSeq(p, 1, k) \in DOMAIN fs
       THEN <<"ENOTDIR">>
    ELSE <<"ENOENT">>

\* os.IsNotExist(err).
IsNotExist(e) == e = <<"ENOENT">>

\* Index of the first entry of list for which os.IsNotExist holds of the
\* error of os.Stat, 0 if there is none.
FirstMissing(fs, ds, list) ==
    LET m == {i \in DOMAIN list : IsNotExist(Stat(fs, ds, list[i]))}
    IN IF m = {} THEN 0 ELSE CHOOSE i \in m : \A k \in m : i <= k

ValidateSourceStructure(fs, ds, cfg) ==
    LET d == FirstMissing(fs, ds, RequiredDirs(cfg))
        f == FirstMissing(fs, ds, RequiredFiles(cfg))
    IN IF d # 0 THEN <<"required directory not found", RequiredDirs(cfg)[d]>>
       ELSE IF f # 0 THEN <<"required file not found", RequiredFiles(cfg)[f]>>
       ELSE Nil

(***************************************************************************)
(* Converter.LoadClasses.                                                  *)
(***************************************************************************)
RECURSIVE ClassLinesUnfiltered(_)
ClassLinesUnfiltered(lines) ==
    IF lines = <<>> THEN <<>>
    ELSE <<TrimSpace(lines[1])>> \o ClassLinesUnfiltered(Tail(lines))

\* The scan loop: every line trimmed, the non-empty ones appended in order.
RECURSIVE ClassLines(_)
ClassLines(lines) ==
    IF lines = <<>> THEN <<>>
    ELSE LET line == TrimSpace(lines[1])
         IN (IF line # <<>> THEN <<line>> ELSE <<>>)
               \o ClassLines(Tail(lines))

\* os.Open fails on a missing path and succeeds on a directory, whose first
\* read then fails; a line too long for the scanner fails the scan as well.
LoadClasses(fs, ds, cfg) ==
    LET classesPath == Join(cfg.SourceDir, NClasses)
    IN IF classesPath \in DOMAIN fs
          THEN IF ScanErr(fs[classesPath])
                  THEN [err |-> <<"error reading classes.txt", classesPath>>,
                        classes |-> <<>>]
                  ELSE [err |-> Nil,
                        classes |-> ClassLines(ScanLines(fs[classesPath]))]
       ELSE IF classesPath \in ds
          THEN [err |-> <<"error reading classes.txt", classesPath>>,
                classes |-> <<>>]
       ELSE [err |-> <<"failed to open classes.txt", classesPath>>,
             classes |-> <<>>]

(***************************************************************************)
(* Converter.GetImageLabelPairs.                                           *)
(***************************************************************************)
ImageExtensions ==
    {<<".", "j", "p", "g">>,
     <<".", "j", "p", "e", "g">>,
     <<".", "p", "n", "g">>,
     <<".", "b", "m", "p">>,
     <<".", "t", "i", "f", "f">>,
     <<".", "w", "e", "b", "p">>}

\* The label path the walk callback computes for an image file name.
LabelPathFor(name, cfg) ==
    LET ext == ToLower(Ext(name))
        baseName == TrimSuffix(name, ext)
    IN Join(Join(cfg.SourceDir, NLabels), baseName \o DotTxt)

RECURSIVE PairsFrom(_, _, _, _)
PairsFrom(paths, fs, ds, cfg) ==
    IF paths = <<>> THEN <<>>
    ELSE LET name == Base(paths[1])
             labelPath == LabelPathFor(name, cfg)
             rest == PairsFrom(Tail(paths), fs, ds, cfg)
         IN IF ToLower(Ext(name)) \notin ImageExtensions THEN rest
            ELSE IF Exists(fs, ds, labelPath)
               THEN <<[ImagePath |-> paths[1], LabelPath |-> labelPath]>>
                       \o rest
            ELSE rest

GetImageLabelPairs(fs, ds, cfg) ==
    LET imagesDir == Join(cfg.SourceDir, NImages)
    IN IF ~Exists(fs, ds, imagesDir)
          THEN [err |-> <<"error scanning images directory", imagesDir>>,
                pairs |-> <<>>]
          ELSE [err |-> Nil,
                pairs |-> PairsFrom(WalkFiles(fs, imagesDir), fs, ds, cfg)]

(***************************************************************************)
(* Converter.CreateYOLOStructure, copyFile, Converter.CopyFiles and        *)
(* Converter.CreateYAMLConfig.                                             *)
(***************************************************************************)
DirsToCreate(cfg) ==
    <<cfg.OutputDir \o <<NImages, NTrain>>, cfg.OutputDir \o <<NImages, NVal>>,
      cfg.OutputDir \o <<NLabels, NTrain>>, cfg.OutputDir \o <<NLabels, NVal>>>>

\* The loop with os.Mkdir semantics for a directory that is already there:
\* it fails on it.
RECURSIVE MkdirFrom(_, _, _)
MkdirFrom(list, fs, ds) ==
    IF list = <<>> THEN [dirs |-> ds, err |-> Nil]
    ELSE IF Prefixes(list[1]) \cap DOMAIN fs # {} \/ list[1] \in ds
       THEN [dirs |-> ds, err |-> <<"failed to create directory", list[1]>>]
       ELSE MkdirFrom(Tail(list), fs, ds \cup Prefixes(list[1]))

\* os.MkdirAll(dir): the directory and its missing parents are created; it
\* fails when a name on the way is a regular file.
RECURSIVE MkdirAllFrom(_, _, _)
MkdirAllFrom(list, fs, ds) ==
    IF list = <<>> THEN [dirs |-> ds, err |-> Nil]
    ELSE IF Prefixes(list[1]) \cap DOMAIN fs # {}
       THEN [dirs |-> ds, err |-> <<"failed to create directory", list[1]>>]
       ELSE MkdirAllFrom(Tail(list), fs, ds \cup Prefixes(list[1]))

CreateYOLOStructure(fs, ds, cfg) == MkdirAllFrom(DirsToCreate(cfg), fs, ds)

\* copyFile(src, dst): open src, create (truncate) dst, copy the bytes.  A
\* directory opens, and its read fails after dst was created.
copyFile(fs, ds, src, dst) ==
    IF src \notin DOMAIN fs /\ src \notin ds THEN [files |-> fs, ok |-> FALSE]
    ELSE IF Front(dst) \notin ds \/ dst \in ds THEN [files |-> fs, ok |-> FALSE]
    ELSE IF src \in ds THEN [files |-> WriteFile(fs, dst, <<>>), ok |-> FALSE]
    ELSE IF src = dst THEN [files |-> WriteFile(fs, dst, <<>>), ok |-> TRUE]
    ELSE [files |-> WriteFile(fs, dst, fs[src]), ok |-> TRUE]

\* CopyFrom going on with the next record after a failed copy and reporting
\* the first failure at the end.
RECURSIVE CopyFromContinue(_, _, _, _, _)
CopyFromContinue(ps, fs, ds, imagesDestDir, labelsDestDir) ==
    IF ps = <<>> THEN [files |-> fs, err |-> Nil]
    ELSE LET img == copyFile(fs, ds, ps[1].ImagePath,
                             Join(imagesDestDir, Base(ps[1].ImagePath)))
             lbl == copyFile(img.files, ds, ps[1].LabelPath,
                             Join(labelsDestDir, Base(ps[1].LabelPath)))
             rest == CopyFromContinue(Tail(ps), lbl.files, ds, imagesDestDir,
                                      labelsDestDir)
         IN IF ~img.ok
               THEN [files |-> rest.files,
                     err |-> <<"failed to copy image", ps[1].ImagePath>>]
            ELSE IF ~lbl.ok
               THEN [files |-> rest.files,
                     err |-> <<"failed to copy label", ps[1].LabelPath>>]
            ELSE rest

\* CopyFrom removing what the destination directories hold when a copy
\* fails.
RECURSIVE CopyFromRollback(_, _, _, _, _)
CopyFromRollback(ps, fs, ds, imagesDestDir, labelsDestDir) ==
    IF ps = <<>> THEN [files |-> fs, err |-> Nil]
    ELSE LET img == copyFile(fs, ds, ps[1].ImagePath,
                             Join(imagesDestDir, Base(ps[1].ImagePath)))
             lbl == copyFile(img.files, ds, ps[1].LabelPath,
                             Join(labelsDestDir, Base(ps[1].LabelPath)))
             Clean(f) == [q \in {x \in DOMAIN f :
                                    Front(x) \notin {imagesDestDir,
                                                     labelsDestDir}} |-> f[q]]
         IN IF ~img.ok
               THEN [files |-> Clean(img.files),
                     err |-> <<"failed to copy image", ps[1].ImagePath>>]
            ELSE IF ~lbl.ok
               THEN [files |-> Clean(lbl.files),
                     err |-> <<"failed to copy label", ps[1].LabelPath>>]
            ELSE CopyFromRollback(Tail(ps), lbl.files, ds, imagesDestDir,
                                  labelsDestDir)

RECURSIVE CopyFrom(_, _, _, _, _)
CopyFrom(ps, fs, ds, imagesDestDir, labelsDestDir) ==
    IF ps = <<>> THEN [files |-> fs, err |-> Nil]
    ELSE LET img == copyFile(fs, ds, ps[1].ImagePath,
                             Join(imagesDestDir, Base(ps[1].ImagePath)))
             lbl == copyFile(img.files, ds, ps[1].LabelPath,
                             Join(labelsDestDir, Base(ps[1].LabelPath)))
         IN IF ~img.ok
               THEN [files |-> img.files,
                     err |-> <<"failed to copy image", ps[1].ImagePath>>]
            ELSE IF ~lbl.ok
               THEN [files |-> lbl.files,
                     err |-> <<"failed to copy label", ps[1].LabelPath>>]
            ELSE CopyFrom(Tail(ps), lbl.files, ds, imagesDestDir, labelsDestDir)

CopyFiles(ps, splitType, fs, ds, cfg) ==
    CopyFrom(ps, fs, ds, cfg.OutputDir \o <<NImages, splitType>>,
             cfg.OutputDir \o <<NLabels, splitType>>)

\* The bytes CreateYAMLConfig writes: the header with the time stamp, then
\* the encoded YAMLConfig.
YAMLText(cfg, cls, now) ==
    [GeneratedAt |-> now, Path |-> Abs(cfg.OutputDir),
     Train |-> <<NImages, NTrain>>, Val |-> <<NImages, NVal>>,
     NC |-> Len(cls), Names |-> cls]

\* CreateYAMLConfig opening the file without truncating it: the names of
\* an earlier document stay in front of the new ones.
CreateYAMLConfigKeep(cls, fs, ds, cfg, now) ==
    LET yamlPath == Join(cfg.OutputDir, NDataYaml)
        old == IF yamlPath \in DOMAIN fs THEN fs[yamlPath].Names ELSE <<>>
    IN IF cfg.OutputDir \notin ds \/ yamlPath \in ds
          THEN [files |-> fs, err |-> <<"failed to create YAML file", yamlPath>>]
          ELSE [files |-> WriteFile(fs, yamlPath,
                                    [YAMLText(cfg, cls, now)
                                        EXCEPT !.Names = old \o cls]),
                err |-> Nil]

CreateYAMLConfig(cls, fs, ds, cfg, now) ==
    LET yamlPath == Join(cfg.OutputDir, NDataYaml)
    IN IF cfg.OutputDir \notin ds \/ yamlPath \in ds
          THEN [files |-> fs, err |-> <<"failed to create YAML file", yamlPath>>]
          ELSE [files |-> WriteFile(fs, yamlPath, YAMLText(cfg, cls, now)),
                err |-> Nil]

(***************************************************************************)
(* Values of the variables a specification does not use.                   *)
(***************************************************************************)
NoStats == [TotalFiles |-> 0, TotalAnnotations |-> 0,
            FilesWithAnnotations |-> 0, EmptyFiles |-> 0, InvalidLines |-> 0]

Fraction(k, d) == [num |-> k, den |-> d]

FractionDen == 100

DefaultConfig == [SourceDir |-> SourceRoot, OutputDir |-> OutputRoot,
                  TrainSplit |-> Fraction(4, 5), Seed |-> 42]

\* Record i of a list: image imgNN.jpg with label imgNN.txt.
NumberedName(i, ext) ==
    <<"i", "m", "g", DigitChars[(i \div 10) + 1], DigitChars[(i % 10) + 1]>>
       \o ext

RecordOf(i) ==
    [ImagePath |-> SourceRoot \o <<NImages, NumberedName(i, <<".", "j", "p", "g">>)>>,
     LabelPath |-> SourceRoot \o <<NLabels, NumberedName(i, DotTxt)>>]

RecordList(n) == [i \in 1..n |-> RecordOf(i)]

SameRecordList(n) == [i \in 1..n |-> RecordOf(1)]

(***************************************************************************)
(* SpecSplitFn: one SplitDataset call on inputs drawn by Init.             *)
(***************************************************************************)
SplitSeeds == {42, 293}

InitSplitFn ==
    /\ files = NoFiles
    /\ dirs = {}
    /\ \E k \in 0..FractionDen, s \in SplitSeeds :
          config = [DefaultConfig EXCEPT !.TrainSplit = Fraction(k, FractionDen),
                                         !.Seed = s]
    /\ pc = "call"
    /\ err = Nil
    /\ classes = <<>>
    /\ \E n \in 0..MaxRecords :
          pairs \in {RecordList(n), SameRecordList(n)}
    /\ stats = NoStats
    /\ trainPairs = <<>>
    /\ valPairs = <<>>
    /\ rng = RngBoot
    /\ clock = 0
    /\ history = <<>>

CallSplitDataset ==
    /\ pc = "call"
    /\ LET r == SplitDataset(pairs, config, rng)
       IN /\ trainPairs' = r.train
          /\ valPairs' = r.val
          /\ rng' = r.rng
          /\ pairs' = r.input
          /\ pc' = IF r.panic THEN "panic" ELSE "returned"
    /\ UNCHANGED <<files, dirs, config, err, classes, stats, clock, history>>

NextSplitFn == CallSplitDataset

SpecSplitFn == InitSplitFn /\ [][NextSplitFn]_vars

(***************************************************************************)
(* SpecSplit: a process that calls SplitDataset several times, on          *)
(* converters with different seeds, fractions and record lists.            *)
(***************************************************************************)
CallSeeds == {42, 293}

CallFractions == {Fraction(1, 2), Fraction(4, 5)}

CallLists == {RecordList(3), RecordList(4),
              <<RecordOf(2), RecordOf(1), RecordOf(3)>>}

InitSplit ==
    /\ files = NoFiles
    /\ dirs = {}
    /\ config = DefaultConfig
    /\ pc = "call"
    /\ err = Nil
    /\ classes = <<>>
    /\ pairs = <<>>
    /\ stats = NoStats
    /\ trainPairs = <<>>
    /\ valPairs = <<>>
    /\ rng = RngBoot
    /\ clock = 0
    /\ history = <<>>

\* NewConverter(cfg).SplitDataset(ps), the generator being shared.
SplitCall(ps, f, s) ==
    /\ Len(history) < MaxCalls
    /\ LET cfg == [DefaultConfig EXCEPT !.TrainSplit = f, !.Seed = s]
           r == SplitDataset(ps, cfg, rng)
       IN /\ config' = cfg
          /\ pairs' = r.input
          /\ trainPairs' = r.train
          /\ valPairs' = r.val
          /\ rng' = r.rng
          /\ history' = Append(history,
                 [pairs |-> ps, TrainSplit |-> f, Seed |-> s,
                  train |-> r.train, val |-> r.val])
    /\ UNCHANGED <<files, dirs, pc, err, classes, stats, clock>>

NextSplit ==
    \E ps \in CallLists, f \in CallFractions, s \in CallSeeds :
        SplitCall(ps, f, s)

SpecSplit == InitSplit /\ [][NextSplit]_vars

(***************************************************************************)
(* Claims about SplitDataset.                                              *)
(***************************************************************************)
\* C1: two SplitDataset calls with the same record list, fraction and seed
\* return the same train list and the same val list, whatever calls were
\* made before or between them.
C1_SplitDeterministic ==
    \A i, j \in DOMAIN history :
        (/\ history[i].pairs = history[j].pairs
         /\ history[i].TrainSplit = history[j].TrainSplit
         /\ history[i].Seed = history[j].Seed)
        => (/\ history[i].train = history[j].train
            /\ history[i].val = history[j].val)

\* Two calls with equal inputs, a call with another seed between them, and a
\* shuffle that moved something.
C1_Witness ==
    \E i, m, j \in DOMAIN history :
        /\ i < m /\ m < j
        /\ history[i].pairs = history[j].pairs
        /\ history[i].TrainSplit = history[j].TrainSplit
        /\ history[i].Seed = history[j].Seed
        /\ history[m].Seed # history[i].Seed
        /\ history[i].train \o history[i].val # history[i].pairs
        /\ history[i].train = history[j].train
        /\ history[i].val = history[j].val

\* C2: train and val partition the record list: as multisets their union is
\* the input, and no record of a duplicate-free input is in both.
C2_SplitPartition ==
    pc = "returned" =>
        /\ SeqToBag(trainPairs) (+) SeqToBag(valPairs) = SeqToBag(pairs)
        /\ Len(trainPairs) + Len(valPairs) = Len(pairs)
        /\ (\A i, j \in DOMAIN pairs : pairs[i] = pairs[j] => i = j)
              => Range(trainPairs) \cap Range(valPairs) = {}

\* A split of several distinct records with both sides non-empty, in an
\* order other than the input order.
C2_Witness ==
    /\ pc = "returned"
    /\ Len(pairs) >= 4
    /\ pairs = RecordList(Len(pairs))
    /\ trainPairs # <<>> /\ valPairs # <<>>
    /\ trainPairs \o valPairs # pairs

\* C3: |train| = floor(|R| * f) and |val| = |R| - |train|, for the fraction f
\* the configuration names.
C3_TrainCountIsFloor ==
    pc = "returned" =>
        /\ Len(trainPairs)
              = (Len(pairs) * config.TrainSplit.num) \div config.TrainSplit.den
        /\ Len(valPairs) = Len(pairs) - Len(trainPairs)

(***************************************************************************)
(* SpecLabels: ValidateLabels on one record whose label file holds one     *)
(* line drawn by Init.                                                     *)
(***************************************************************************)
LabelTokens ==
    {<<"0">>,
     <<"1">>,
     <<"+", "1">>,
     <<"-", "1">>,
     <<"0", ".", "5">>,
     <<"1", ".", "5">>,
     <<"-", "0", ".", "5">>,
     <<".", "5">>,
     <<"1", ".">>,
     <<"5", "e", "-", "1">>,
     <<"1", "e", "1">>,
     <<"1", "e">>,
     <<"-", "0">>,
     <<"N", "a", "N">>,
     <<"n", "a", "n">>,
     <<"I", "n", "f">>,
     <<"-", "I", "n", "f">>,
     <<"+", "n", "a", "n">>,
     <<"x">>,
     <<"0", ".", "5", ".", "5">>,
     <<"9", "e", "9", "9", "9">>,
     <<"0", "x", "1", "p", "-", "1">>,
     <<"0", ".", "5", "_", "0">>,
     <<"1", ".", "0", "0", "0", "0", "0", "0", "0", "0", "0", "0", "0", "0", "0", "0", "0", "1">>,
     <<"-", "1", "e", "-", "4", "0", "0">>,
     <<"1", ".", "8", "e", "3", "0", "8">>,
     <<"9", "9", "9", "9", "9", "9", "9", "9", "9", "9", "9", "9", "9", "9", "9", "9", "9", "9", "9", "9">>}

PlainLine == <<<<"0">>, <<"0", ".", "5">>, <<"0", ".", "5">>, <<"0", ".", "5">>, <<"0", ".", "5">>>>

PlainToken == <<"0", ".", "5">>

\* The plain line with positions i and j replaced, and lines of n tokens.
TokenLines ==
    {[PlainLine EXCEPT ![i] = t, ![j] = u] :
        i \in 1..5, j \in 1..5, t \in LabelTokens, u \in LabelTokens}
    \cup {[k \in 1..n |-> PlainToken] : n \in 0..MaxLineTokens}

RECURSIVE JoinTokens(_, _)
JoinTokens(toks, sep) ==
    IF toks = <<>> THEN <<>>
    ELSE IF Len(toks) = 1 THEN toks[1]
    ELSE toks[1] \o sep \o JoinTokens(Tail(toks), sep)

\* The text of a label file with one line: the tokens joined by sep, padded
\* left and right by pad, ended by a newline.
LabelText(toks, sep, pad) == pad \o JoinTokens(toks, sep) \o pad \o <<"\n">>

TokenSeparators == {<<" ">>, <<"\t", " ">>, <<"\f">>}

LinePaddings == {<<>>, <<" ">>}

NameATxt == <<"a", ".", "t", "x", "t">>

NameAJpg == <<"a", ".", "j", "p", "g">>

LabelRecord == [ImagePath |-> SourceRoot \o <<NImages, NameAJpg>>,
                LabelPath |-> SourceRoot \o <<NLabels, NameATxt>>]

InitLabels ==
    /\ \E toks \in TokenLines, sep \in TokenSeparators, pad \in LinePaddings :
          files = (LabelRecord.LabelPath :> LabelText(toks, sep, pad))
    /\ dirs = {SourceRoot, Join(SourceRoot, NImages),
               Join(SourceRoot, NLabels)}
    /\ config = DefaultConfig
    /\ pc = "call"
    /\ err = Nil
    /\ classes = <<>>
    /\ pairs = <<LabelRecord>>
    /\ stats = NoStats
    /\ trainPairs = <<>>
    /\ valPairs = <<>>
    /\ rng = RngBoot
    /\ clock = 0
    /\ history = <<>>

CallValidateLabels ==
    /\ pc = "call"
    /\ stats' = ValidateLabels(pairs, files)
    /\ pc' = "returned"
    /\ UNCHANGED <<files, dirs, config, err, classes, pairs,
                   trainPairs, valPairs, rng, clock, history>>

NextLabels == CallValidateLabels

SpecLabels == InitLabels /\ [][NextLabels]_vars

(***************************************************************************)
(* Claims about ValidateLabels.                                            *)
(***************************************************************************)
\* The lines of the label file of the record under validation.
LabelLines == ScanLines(files[pairs[1].LabelPath])

\* A token that parses as a float within the closed range [0,1]: a finite
\* float64 v with 0 <= v <= 1.
InUnitRange(tok) ==
    LET v == ParseFloat(tok)
    IN /\ v.ok
       /\ v.class = "finite"
       /\ ~LessThanZero(v)
       /\ ~GreaterThanOne(v)

NonBlank(text) == TrimSpace(text) # <<>>

WellFormed(text) ==
    LET parts == Fields(text)
    IN /\ Len(parts) = 5
       /\ AtoiOk(parts[1])
       /\ \A i \in 2..5 : InUnitRange(parts[i])

\* C4: a non-blank line is counted valid if and only if it has exactly 5
\* tokens, token 0 is an integer and tokens 1 to 4 are floats within [0,1];
\* every other non-blank line is counted invalid.
C4_ValidIffWellFormed ==
    pc = "returned" =>
        /\ stats.TotalAnnotations
              = Cardinality({i \in DOMAIN LabelLines :
                                NonBlank(LabelLines[i])
                                /\ WellFormed(LabelLines[i])})
        /\ stats.InvalidLines
              = Cardinality({i \in DOMAIN LabelLines :
                                NonBlank(LabelLines[i])
                                /\ ~WellFormed(LabelLines[i])})

\* A token that parses to NaN, +Inf or -Inf.
NonFinite(tok) == ParseFloat(tok).class \in {"nan", "inf"}

HasNonFiniteCoord(text) ==
    LET parts == Fields(text)
    IN \E i \in 2..5 : i <= Len(parts) /\ NonFinite(parts[i])

\* C5: a line with a non-finite coordinate token never increments the
\* valid-line count.
C5_NonFiniteNotValid ==
    pc = "returned" =>
        stats.TotalAnnotations
           <= Cardinality({i \in DOMAIN LabelLines :
                              ~HasNonFiniteCoord(LabelLines[i])})

(***************************************************************************)
(* SpecClasses: LoadClasses on a classes.txt drawn by Init.                *)
(***************************************************************************)
ClassLineTexts ==
    {<<>>,
     <<" ">>,
     <<"a">>,
     <<" ", "a">>,
     <<"a", "\t">>,
     <<"a", " ", "b">>,
     <<"b">>,
     <<" ", "b", " ", "\r">>}

\* The bytes of a class file: the lines joined by newlines, with or without
\* a final newline.
ClassTexts ==
    {JoinTokens(lines, <<"\n">>) \o final :
        lines \in UNION {[1..n -> ClassLineTexts] : n \in 0..MaxClassLines},
        final \in {<<>>, <<"\n">>}}

Repeat(c, n) == [i \in 1..n |-> c]

\* Class files around the scanner's limit: a whitespace-only line of exactly
\* MaxScanTokenSize bytes, of one byte less, of one byte less before a "\r",
\* and of half as many two-byte characters, each between two class names.
LongClassTexts ==
    {<<"a", "\n">> \o long \o <<"\n", " ", "b">> :
        long \in {Repeat(" ", MaxScanTokenSize),
                  Repeat(" ", MaxScanTokenSize - 1),
                  Repeat(" ", MaxScanTokenSize - 1) \o <<"\r">>,
                  Repeat("U+00A0", MaxScanTokenSize \div 2)}}

ClassesPath == Join(SourceRoot, NClasses)

\* classes.txt is missing, a directory, or a regular file.
InitClasses ==
    /\ \/ files = NoFiles /\ dirs = {SourceRoot}
       \/ files = NoFiles /\ dirs = {SourceRoot, ClassesPath}
       \/ /\ \E text \in ClassTexts \cup LongClassTexts :
                files = (ClassesPath :> text)
          /\ dirs = {SourceRoot}
    /\ config = DefaultConfig
    /\ pc = "call"
    /\ err = Nil
    /\ classes = <<>>
    /\ pairs = <<>>
    /\ stats = NoStats
    /\ trainPairs = <<>>
    /\ valPairs = <<>>
    /\ rng = RngBoot
    /\ clock = 0
    /\ history = <<>>

CallLoadClasses ==
    /\ pc = "call"
    /\ LET r == LoadClasses(files, dirs, config)
       IN /\ classes' = r.classes
          /\ err' = r.err
    /\ pc' = "returned"
    /\ UNCHANGED <<files, dirs, config, pairs, stats, trainPairs, valPairs,
                   rng, clock, history>>

NextClasses == CallLoadClasses

SpecClasses == InitClasses /\ [][NextClasses]_vars

(***************************************************************************)
(* Claims about LoadClasses.                                               *)
(***************************************************************************)
\* The lines of a byte sequence, as pairs <<a, b>> of consecutive line
\* breaks (0 and Len + 1 included): the line is data[a+1 .. b-1].
LineBreaks(data) ==
    {0, Len(data) + 1} \cup {i \in DOMAIN data : data[i] = "\n"}

LineSpans(data) ==
    {sp \in LineBreaks(data) \X LineBreaks(data) :
        /\ sp[1] < sp[2]
        /\ ~\E c \in LineBreaks(data) : sp[1] < c /\ c < sp[2]}

\* The positions of a line that hold a character other than whitespace.
Inked(data, sp) == {i \in (sp[1] + 1)..(sp[2] - 1) : ~IsSpace(data[i])}

NonBlankSpans(data) == {sp \in LineSpans(data) : Inked(data, sp) # {}}

\* The text of a non-blank line from its first to its last inked position.
TrimmedText(data, sp) ==
    SubSeq(data, CHOOSE i \in Inked(data, sp) : \A k \in Inked(data, sp) : i <= k,
                 CHOOSE i \in Inked(data, sp) : \A k \in Inked(data, sp) : k <= i)

\* Every line of the data, its "\r" included, is shorter than the scanner's
\* limit in bytes.
EveryLineFits(data) ==
    \A sp \in LineSpans(data) :
        ByteLen(SubSeq(data, sp[1] + 1, sp[2] - 1)) < MaxScanTokenSize

\* C8 as stated: for every classes.txt LoadClasses returns one entry per line
\* that is non-empty after trimming, each the trimmed text of its line, in
\* file order.
C8_ClassesAreNonBlankLines ==
    (pc = "returned" /\ ClassesPath \in DOMAIN files) =>
        LET data == files[ClassesPath]
        IN /\ err = Nil
           /\ Len(classes) = Cardinality(NonBlankSpans(data))
           /\ \A sp \in NonBlankSpans(data) :
                 LET k == Cardinality({o \in NonBlankSpans(data) :
                                          o[1] <= sp[1]})
                 IN classes[k] = TrimmedText(data, sp)

\* C8 amended: for a classes.txt whose lines are all shorter than 65536
\* bytes LoadClasses returns one entry per line that is non-empty after
\* trimming, each the trimmed text of its line, in file order; for a
\* classes.txt with a longer line, blank or not, it returns a read error and
\* no entries.
C8_FittingLinesAreClasses ==
    (pc = "returned" /\ ClassesPath \in DOMAIN files) =>
        LET data == files[ClassesPath]
        IN IF EveryLineFits(data)
              THEN /\ err = Nil
                   /\ Len(classes) = Cardinality(NonBlankSpans(data))
                   /\ \A sp \in NonBlankSpans(data) :
                         LET k == Cardinality({o \in NonBlankSpans(data) :
                                                  o[1] <= sp[1]})
                         IN classes[k] = TrimmedText(data, sp)
              ELSE /\ err # Nil
                   /\ err[1] = "error reading classes.txt"
                   /\ classes = <<>>

\* A file with a blank line of the greatest length that fits between two
\* class names, the second padded, was loaded.
C8_Witness ==
    /\ pc = "returned"
    /\ ClassesPath \in DOMAIN files
    /\ err = Nil
    /\ Len(classes) = 2
    /\ \E bl \in LineSpans(files[ClassesPath]) :
          bl[2] - bl[1] - 1 = MaxScanTokenSize - 1
    /\ Cardinality(LineSpans(files[ClassesPath])) >= 3
    /\ \E sp \in NonBlankSpans(files[ClassesPath]) :
          /\ TrimmedText(files[ClassesPath], sp) = classes[2]
          /\ sp[2] - sp[1] - 1 > Len(classes[2])
          /\ \E bl \in LineSpans(files[ClassesPath]) :
                /\ bl[2] <= sp[1]
                /\ Inked(files[ClassesPath], bl) = {}

(***************************************************************************)
(* Spec: one Convert run over a source tree drawn by Init; one action per  *)
(* stage of Convert.                                                       *)
(***************************************************************************)
ImagesDir == Join(SourceRoot, NImages)

LabelsDir == Join(SourceRoot, NLabels)

ImgA == Join(ImagesDir, <<"a", ".", "j", "p", "g">>)

ImgB == Join(ImagesDir, <<"b", ".", "P", "N", "G">>)

ImgC == Join(ImagesDir, <<"c", ".", "p", "n", "g">>)

ImgD == Join(ImagesDir, <<"d", ".", "g", "i", "f">>)

ImgSubA == ImagesDir \o <<NSub, <<"a", ".", "j", "p", "e", "g">>>>

ImageUniverse == {ImgA, ImgB, ImgC, ImgD, ImgSubA}

LblA == Join(LabelsDir, <<"a", ".", "t", "x", "t">>)

LblB == Join(LabelsDir, <<"b", ".", "t", "x", "t">>)

LblBPng == Join(LabelsDir, <<"b", ".", "P", "N", "G", ".", "t", "x", "t">>)

LblD == Join(LabelsDir, <<"d", ".", "t", "x", "t">>)

LabelUniverse == {LblA, LblB, LblBPng, LblD}

\* The bytes of the source files: an image holds its own name, a label file
\* a fixed text, classes.txt two names around a blank line.
LabelBytes(p) ==
    IF p = LblA THEN <<"0", " ", "0", ".", "5", " ", "0", ".", "5", " ", "0", ".", "5", " ", "0", ".", "5", "\n">>
    ELSE IF p = LblB THEN <<"1", " ", "0", ".", "5", "\n", "0", " ", "1", " ", "1", " ", "0", " ", "0", "\n">>
    ELSE IF p = LblBPng THEN <<>>
    ELSE <<"0", " ", "0", " ", "0", " ", "1", " ", "N", "a", "N", "\n">>

ClassesBytes == <<"a", "\n", "\n", " ", "b", " ", "\n">>

SourceFiles(imgs, lbls, hasClasses) ==
    [p \in imgs \cup lbls \cup (IF hasClasses THEN {ClassesPath} ELSE {}) |->
        IF p \in imgs THEN Base(p)
        ELSE IF p \in lbls THEN LabelBytes(p)
        ELSE ClassesBytes]

SourceDirs(imgs, hasImages, hasLabels) ==
    {SourceRoot}
       \cup (IF hasImages THEN {ImagesDir} ELSE {})
       \cup (IF hasLabels THEN {LabelsDir} ELSE {})
       \cup {Front(p) : p \in imgs}

TrainSplits == {Fraction(0, 1), Fraction(1, 2), Fraction(4, 5), Fraction(1, 1)}

Seeds == {42, 293}

Configs == {[DefaultConfig EXCEPT !.TrainSplit = f, !.Seed = sd] :
               f \in TrainSplits, sd \in Seeds}

\* The source root holds any part of the tree, or it is a regular file, or
\* its classes.txt is a directory.
Init ==
    /\ \/ \E hasImages \in BOOLEAN, hasLabels \in BOOLEAN, hasClasses \in BOOLEAN :
             \E imgs \in SUBSET ImageUniverse, lbls \in SUBSET LabelUniverse :
                /\ hasImages \/ imgs = {}
                /\ hasLabels \/ lbls = {}
                /\ files = SourceFiles(imgs, lbls, hasClasses)
                /\ dirs = SourceDirs(imgs, hasImages, hasLabels)
       \/ /\ files = (SourceRoot :> ClassesBytes)
          /\ dirs = {}
       \/ /\ files = SourceFiles({ImgA}, {LblA}, FALSE)
          /\ dirs = SourceDirs({ImgA}, TRUE, TRUE) \cup {ClassesPath}
    /\ config \in Configs
    /\ pc = "start"
    /\ err = Nil
    /\ classes = <<>>
    /\ pairs = <<>>
    /\ stats = NoStats
    /\ trainPairs = <<>>
    /\ valPairs = <<>>
    /\ rng = RngBoot
    /\ clock = 0
    /\ history = <<>>

\* The error ValidateLabels returns next to the statistics: always nil.
ValidateLabelsErrOnInvalid(ps, fs) ==
    IF ValidateLabels(ps, fs).InvalidLines > 0
       THEN <<"invalid label lines">>
       ELSE Nil

ValidateLabelsErr(ps, fs) == Nil

ErrEmptyDataset == <<"no valid image-label pairs found">>

\* The test "len(pairs) == 0" of Convert.
NoPairsNever(ps) == FALSE

NoPairs(ps) == Len(ps) = 0

ConvertValidateSource ==
    /\ pc = "start"
    /\ LET e == ValidateSourceStructure(files, dirs, config)
       IN /\ err' = e
          /\ pc' = IF e = Nil THEN "validated" ELSE "failed"
    /\ UNCHANGED <<files, dirs, config, classes, pairs, stats, trainPairs,
                   valPairs, rng, clock, history>>

ConvertLoadClasses ==
    /\ pc = "validated"
    /\ LET r == LoadClasses(files, dirs, config)
       IN /\ classes' = r.classes
          /\ err' = r.err
          /\ pc' = IF r.err = Nil THEN "loaded" ELSE "failed"
    /\ UNCHANGED <<files, dirs, config, pairs, stats, trainPairs, valPairs,
                   rng, clock, history>>

ConvertGetPairs ==
    /\ pc = "loaded"
    /\ LET r == GetImageLabelPairs(files, dirs, config)
       IN /\ pairs' = r.pairs
          /\ err' = IF r.err # Nil THEN r.err
                    ELSE IF NoPairs(r.pairs) THEN ErrEmptyDataset
                    ELSE Nil
          /\ pc' = IF r.err # Nil \/ NoPairs(r.pairs) THEN "failed"
                   ELSE "paired"
    /\ UNCHANGED <<files, dirs, config, classes, stats, trainPairs, valPairs,
                   rng, clock, history>>

ConvertValidateLabels ==
    /\ pc = "paired"
    /\ LET e == ValidateLabelsErr(pairs, files)
       IN /\ stats' = IF e = Nil THEN ValidateLabels(pairs, files) ELSE stats
          /\ err' = e
          /\ pc' = IF e = Nil THEN "labelled" ELSE "failed"
    /\ UNCHANGED <<files, dirs, config, classes, pairs, trainPairs,
                   valPairs, rng, clock, history>>

ConvertSplit ==
    /\ pc = "labelled"
    /\ LET r == SplitDataset(pairs, config, rng)
       IN /\ trainPairs' = r.train
          /\ valPairs' = r.val
          /\ rng' = r.rng
          /\ pairs' = r.input
          /\ pc' = IF r.panic THEN "panic" ELSE "split"
    /\ UNCHANGED <<files, dirs, config, err, classes, stats, clock, history>>

ConvertCreateStructure ==
    /\ pc = "split"
    /\ LET r == CreateYOLOStructure(files, dirs, config)
       IN /\ dirs' = r.dirs
          /\ err' = r.err
          /\ pc' = IF r.err = Nil THEN "layout" ELSE "failed"
    /\ UNCHANGED <<files, config, classes, pairs, stats, trainPairs,
                   valPairs, rng, clock, history>>

\* ConvertCopyTrain with the error of CopyFiles dropped.
ConvertCopyTrainUnchecked ==
    /\ pc = "layout"
    /\ LET r == CopyFiles(trainPairs, NTrain, files, dirs, config)
       IN /\ files' = r.files
          /\ err' = r.err
          /\ pc' = "copiedTrain"
    /\ UNCHANGED <<dirs, config, classes, pairs, stats, trainPairs, valPairs,
                   rng, clock, history>>

ConvertCopyTrain ==
    /\ pc = "layout"
    /\ LET r == CopyFiles(trainPairs, NTrain, files, dirs, config)
       IN /\ files' = r.files
          /\ err' = r.err
          /\ pc' = IF r.err = Nil THEN "copiedTrain" ELSE "failed"
    /\ UNCHANGED <<dirs, config, classes, pairs, stats, trainPairs, valPairs,
                   rng, clock, history>>

ConvertCopyVal ==
    /\ pc = "copiedTrain"
    /\ LET r == CopyFiles(valPairs, NVal, files, dirs, config)
       IN /\ files' = r.files
          /\ err' = r.err
          /\ pc' = IF r.err = Nil THEN "copiedVal" ELSE "failed"
    /\ UNCHANGED <<dirs, config, classes, pairs, stats, trainPairs, valPairs,
                   rng, clock, history>>

ConvertCreateYAML ==
    /\ pc = "copiedVal"
    /\ LET r == CreateYAMLConfig(classes, files, dirs, config, clock)
       IN /\ files' = r.files
          /\ err' = r.err
          /\ pc' = IF r.err = Nil THEN "done" ELSE "failed"
    /\ UNCHANGED <<dirs, config, classes, pairs, stats, trainPairs, valPairs,
                   rng, clock, history>>

Next ==
    \/ ConvertValidateSource
    \/ ConvertLoadClasses
    \/ ConvertGetPairs
    \/ ConvertValidateLabels
    \/ ConvertSplit
    \/ ConvertCreateStructure
    \/ ConvertCopyTrain
    \/ ConvertCopyVal
    \/ ConvertCreateYAML

Spec == Init /\ [][Next]_vars

(***************************************************************************)
(* Claims about the pairing, the source check and the empty data set.      *)
(***************************************************************************)
\* A file name with its extension stripped.
StripExt(name) == SubSeq(name, 1, Len(name) - Len(Ext(name)))

IsImageFile(p) ==
    /\ p \in DOMAIN files
    /\ IsUnder(p, Join(config.SourceDir, NImages))
    /\ ToLower(Ext(Base(p))) \in ImageExtensions

\* <source>/labels/<B>.txt for the image file p, B its name without extension.
SameNamedLabel(p) ==
    Join(Join(config.SourceDir, NLabels), StripExt(Base(p)) \o DotTxt)

ExpectedRecords ==
    {[ImagePath |-> p, LabelPath |-> SameNamedLabel(p)] :
        p \in {q \in DOMAIN files :
                  IsImageFile(q) /\ SameNamedLabel(q) \in DOMAIN files}}

AfterPairing == {"paired", "labelled", "split", "layout", "copiedTrain",
                 "copiedVal", "done"}

\* C6: GetImageLabelPairs returns a record for a file beneath images exactly
\* when its extension is recognised case-insensitively and
\* labels/<name without extension>.txt exists, with that label path.
C6_PairsAreSameNamed ==
    /\ pc \in AfterPairing => Range(pairs) = ExpectedRecords
    /\ (pc = "failed" /\ err = ErrEmptyDataset) => ExpectedRecords = {}

OutputImages ==
    {p \in DOMAIN files :
        Front(p) \in {config.OutputDir \o <<NImages, NTrain>>,
                      config.OutputDir \o <<NImages, NVal>>}}

\* C7: an image file without a same-named .txt label is in no record, in
\* neither subset, and is not copied to images/train or images/val.
C7_OrphanExcluded ==
    \A p \in DOMAIN files :
        (IsImageFile(p) /\ SameNamedLabel(p) \notin DOMAIN files) =>
            /\ \A i \in DOMAIN pairs : pairs[i].ImagePath # p
            /\ \A i \in DOMAIN trainPairs : trainPairs[i].ImagePath # p
            /\ \A i \in DOMAIN valPairs : valPairs[i].ImagePath # p
            /\ \A q \in OutputImages : Base(q) # Base(p)

Required == <<Join(config.SourceDir, NImages), Join(config.SourceDir, NLabels),
              Join(config.SourceDir, NClasses)>>

MissingEntries == {i \in DOMAIN Required : ~Exists(files, dirs, Required[i])}

\* C9: ValidateSourceStructure names the first missing entry in the order
\* images, labels, classes.txt, succeeds exactly when none is missing, and
\* changes nothing on disk.
C9_Step ==
    pc = "start" =>
        /\ files' = files
        /\ dirs' = dirs
        /\ MissingEntries = {} <=> (err' = Nil /\ pc' = "validated")
        /\ MissingEntries # {} =>
              /\ pc' = "failed"
              /\ Len(err') = 2
              /\ err'[1] \in {"required directory not found",
                              "required file not found"}
              /\ err'[2] = Required[CHOOSE i \in MissingEntries :
                                       \A k \in MissingEntries : i <= k]

C9_FirstMissingNamed == [][C9_Step]_vars

\* The check failed on labels although classes.txt is missing as well, and
\* it passed on another tree.
C9_Witness ==
    /\ pc = "failed"
    /\ MissingEntries = {2, 3}
    /\ err = <<"required directory not found", Required[2]>>

OutputEntries ==
    {p \in DOMAIN files \cup dirs :
        p = config.OutputDir \/ IsUnder(p, config.OutputDir)}

\* C10: with zero records Convert fails with the empty-dataset error, and up
\* to that point nothing was created under the output root.
C10_Step ==
    /\ pc \in {"start", "validated", "loaded"} =>
          files' = files /\ dirs' = dirs
    /\ (pc = "loaded" /\ ExpectedRecords = {}
           /\ GetImageLabelPairs(files, dirs, config).pairs = <<>>) =>
          pc' = "failed" /\ err' = ErrEmptyDataset
    /\ err' = ErrEmptyDataset =>
          pc = "loaded" /\ pc' = "failed" /\ OutputEntries' = {}

C10_EmptyFailsBeforeOutput == [][C10_Step]_vars

\* A run over a tree with images but no record failed as empty, the output
\* root untouched.
C10_Witness ==
    /\ pc = "failed"
    /\ err = ErrEmptyDataset
    /\ \E p \in DOMAIN files : IsImageFile(p)
    /\ OutputEntries = {}

(***************************************************************************)
(* SpecRuns: Convert run on the three-record tree of the tests and run     *)
(* once more into the same output root, while another process may remove   *)
(* source files.                                                           *)
(***************************************************************************)
ImgB2 == Join(ImagesDir, <<"b", ".", "p", "n", "g">>)

ImgC3 == Join(ImagesDir, <<"c", ".", "j", "p", "e", "g">>)

LblC == Join(LabelsDir, <<"c", ".", "t", "x", "t">>)

RunFiles ==
    (ImgA :> Base(ImgA)) @@ (ImgB2 :> Base(ImgB2)) @@ (ImgC3 :> Base(ImgC3))
       @@ (LblA :> LabelBytes(LblA)) @@ (LblB :> LabelBytes(LblB))
       @@ (LblC :> <<" ", "\n", "\n">>) @@ (ClassesPath :> ClassesBytes)

RunDirs == {SourceRoot, ImagesDir, LabelsDir}

RunConfigs == {[DefaultConfig EXCEPT !.TrainSplit = f, !.Seed = sd] :
                  f \in CallFractions, sd \in Seeds}

\* The files another process may remove while the converter runs.
RemovableFiles == {ImgA, LblB, ClassesPath}

\* The regular files beneath root, with their bytes.
Tree(fs, root) == [p \in {q \in DOMAIN fs : IsUnder(q, root)} |-> fs[p]]

InitRuns ==
    /\ files = RunFiles
    /\ dirs = RunDirs
    /\ config \in RunConfigs
    /\ pc = "start"
    /\ err = Nil
    /\ classes = <<>>
    /\ pairs = <<>>
    /\ stats = NoStats
    /\ trainPairs = <<>>
    /\ valPairs = <<>>
    /\ rng = RngBoot
    /\ clock = 0
    /\ history = <<>>

\* The program is started again, later or within the same second, with the
\* same or other flags; history keeps what the first run left.
NewRun ==
    /\ pc \in {"done", "failed"}
    /\ history = <<>>
    /\ history' = <<[config |-> config, ok |-> pc = "done",
                     output |-> Tree(files, config.OutputDir)]>>
    /\ config' \in RunConfigs
    /\ clock' \in {clock, clock + 1}
    /\ pc' = "start"
    /\ err' = Nil
    /\ classes' = <<>>
    /\ pairs' = <<>>
    /\ stats' = NoStats
    /\ trainPairs' = <<>>
    /\ valPairs' = <<>>
    /\ rng' = RngBoot
    /\ UNCHANGED <<files, dirs>>

EnvRemove ==
    /\ \E p \in RemovableFiles \cap DOMAIN files :
          files' = [q \in DOMAIN files \ {p} |-> files[q]]
    /\ UNCHANGED <<dirs, config, pc, err, classes, pairs, stats, trainPairs,
                   valPairs, rng, clock, history>>

\* GetImageLabelPairs when a file that filepath.Walk has listed is removed
\* before Walk calls lstat on it: the callback gets the error and returns it,
\* and Convert fails.
ConvertGetPairsRemoved ==
    /\ pc = "loaded"
    /\ \E p \in RemovableFiles \cap DOMAIN files :
          /\ IsUnder(p, Join(config.SourceDir, NImages))
          /\ files' = [q \in DOMAIN files \ {p} |-> files[q]]
          /\ err' = <<"error scanning images directory", p>>
    /\ pairs' = <<>>
    /\ pc' = "failed"
    /\ UNCHANGED <<dirs, config, classes, stats, trainPairs, valPairs, rng,
                   clock, history>>

NextRuns ==
    \/ ConvertValidateSource
    \/ ConvertLoadClasses
    \/ ConvertGetPairs
    \/ ConvertGetPairsRemoved
    \/ ConvertValidateLabels
    \/ ConvertSplit
    \/ ConvertCreateStructure
    \/ ConvertCopyTrain
    \/ ConvertCopyVal
    \/ ConvertCreateYAML
    \/ NewRun
    \/ EnvRemove

SpecRuns == InitRuns /\ [][NextRuns]_vars

(***************************************************************************)
(* Claims about repeated runs.                                             *)
(***************************************************************************)
SourceIntact == Tree(files, config.SourceDir) = RunFiles

\* C11: a second Convert run with the same source contents, output root,
\* fraction and seed leaves every file under the output root, data.yaml
\* included, with the bytes the first run left.
C11_RerunByteIdentical ==
    (/\ pc = "done"
     /\ history # <<>>
     /\ history[1].ok
     /\ history[1].config = config
     /\ SourceIntact)
    => Tree(files, config.OutputDir) = history[1].output

LeafDirs == {config.OutputDir \o <<k, sp>> :
                k \in {NImages, NLabels}, sp \in {NTrain, NVal}}

LeafFiles == {p \in DOMAIN files : Front(p) \in LeafDirs}

\* The destinations of the records of ps in the leaf directories of sp.
Destinations(ps, sp) ==
    {config.OutputDir \o <<NImages, sp, Base(ps[i].ImagePath)>> :
        i \in DOMAIN ps}
    \cup {config.OutputDir \o <<NLabels, sp, Base(ps[i].LabelPath)>> :
             i \in DOMAIN ps}

\* C12: after a successful run the four leaf directories hold exactly the
\* files this run copied, whatever earlier runs left there, and no file
\* name is present in both the train and the val directory.
C12_LayoutFresh ==
    pc = "done" =>
        /\ LeafFiles = Destinations(trainPairs, NTrain)
                          \cup Destinations(valPairs, NVal)
        /\ \A p, q \in LeafFiles :
              (p[Len(p) - 1] = NTrain /\ q[Len(q) - 1] = NVal) =>
                  Base(p) # Base(q)

IOFailures == {"failed to create directory", "failed to copy image",
               "failed to copy label", "failed to create YAML file"}

AfterValidation == {"labelled", "split", "layout", "copiedTrain", "copiedVal"}

\* C13: whatever the label files hold, and also when one cannot be opened,
\* ValidateLabels returns statistics and no error and Convert goes on to the
\* split; a later stage fails on an I/O error only, and with the source
\* files in place the run is never aborted after the pairing.
C13_Step ==
    /\ (pc = "paired" /\ pc' # pc) =>
          /\ pc' = "labelled"
          /\ err' = Nil
          /\ stats'.TotalFiles = Len(pairs)
    /\ (pc = "labelled" /\ pc' # pc) => pc' = "split"
    /\ (pc \in AfterValidation /\ pc' = "failed") =>
          /\ err'[1] \in IOFailures
          /\ ~SourceIntact
    /\ (pc = "copiedVal" /\ pc' # pc /\ SourceIntact) => pc' = "done"

C13_ValidationAdvisory == [][C13_Step]_vars

\* A run completed although one label file had an invalid line and another
\* only blank lines.
C13_Witness ==
    /\ pc = "done"
    /\ stats.InvalidLines > 0
    /\ stats.EmptyFiles > 0
    /\ LblB \in DOMAIN files

(***************************************************************************)
(* SpecStats: ValidateLabels on a list of records whose label files are    *)
(* all readable, their texts drawn by Init.                                *)
(***************************************************************************)
MaxStatFiles == 3

StatTexts ==
    {<<>>,
     <<"0", " ", "0", ".", "5", " ", "0", ".", "5", " ", "0", ".", "3", " ", "0", ".", "3", "\n">>,
     <<"0", " ", "0", ".", "5", " ", "0", ".", "5", " ", "0", ".", "3", " ", "0", ".", "3", "\n", "1", " ", "0", ".", "2", " ", "0", ".", "8", " ", "0", ".", "1", " ", "0", ".", "1", "\n">>,
     <<"0", " ", "0", ".", "5", " ", "2", " ", "0", ".", "3", " ", "0", ".", "3", "\n">>,
     <<"1", " ", "0", ".", "7", " ", "0", ".", "3", " ", "0", ".", "3", " ", "0", ".", "2", "\n", "\n", "x", "\n">>,
     <<" ", "\n", "\t", "\n">>}

InitStats ==
    /\ \E n \in 0..MaxStatFiles :
          /\ pairs \in {RecordList(n), SameRecordList(n)}
          /\ files \in [{pairs[i].LabelPath : i \in 1..n} -> StatTexts]
    /\ dirs = {SourceRoot, Join(SourceRoot, NImages),
               Join(SourceRoot, NLabels)}
    /\ config = DefaultConfig
    /\ pc = "call"
    /\ err = Nil
    /\ classes = <<>>
    /\ stats = NoStats
    /\ trainPairs = <<>>
    /\ valPairs = <<>>
    /\ rng = RngBoot
    /\ clock = 0
    /\ history = <<>>

NextStats == CallValidateLabels

SpecStats == InitStats /\ [][NextStats]_vars

\* The number of lines of a label file that the line check counts as valid.
FileValidCount(data) ==
    LET lines == ScanLines(data)
    IN Cardinality({k \in DOMAIN lines : LineCounts(lines[k]).valid = 1})

RecordValidCount(i) == FileValidCount(files[pairs[i].LabelPath])

RECURSIVE ValidCountUpTo(_)
ValidCountUpTo(n) ==
    IF n = 0 THEN 0 ELSE ValidCountUpTo(n - 1) + RecordValidCount(n)

\* C14: over readable label files TotalFiles is the number of records,
\* TotalAnnotations the sum of the files' valid-line counts,
\* FilesWithAnnotations the number of files with a valid line and EmptyFiles
\* the number of files without one.
C14_StatsAreSums ==
    pc = "returned" =>
        /\ stats.TotalFiles = Len(pairs)
        /\ stats.TotalAnnotations = ValidCountUpTo(Len(pairs))
        /\ stats.FilesWithAnnotations =
              Cardinality({i \in DOMAIN pairs : RecordValidCount(i) > 0})
        /\ stats.EmptyFiles =
              Cardinality({i \in DOMAIN pairs : RecordValidCount(i) = 0})

\* Three files: one with two valid lines, one with an invalid line only, one
\* with a valid and an invalid line.
C14_Witness ==
    /\ pc = "returned"
    /\ Len(pairs) = 3
    /\ stats.TotalAnnotations = 3
    /\ stats.FilesWithAnnotations = 2
    /\ stats.EmptyFiles = 1
    /\ stats.InvalidLines = 2

StageAfter ==
    [st \in {"start", "validated", "loaded", "paired", "labelled", "split",
             "layout", "copiedTrain", "copiedVal"} |->
        CASE st = "start" -> "validated"
          [] st = "validated" -> "loaded"
          [] st = "loaded" -> "paired"
          [] st = "paired" -> "labelled"
          [] st = "labelled" -> "split"
          [] st = "split" -> "layout"
          [] st = "layout" -> "copiedTrain"
          [] st = "copiedTrain" -> "copiedVal"
          [] st = "copiedVal" -> "done"]

\* C15: within a run the stages follow one another in the fixed order, a
\* stage is entered only while no stage has failed, a failure carries an
\* error, and after a failure the run does nothing more: the error stays
\* and nothing under the output root changes until the program is started
\* again.
C15_Step ==
    /\ (pc' # pc /\ pc' # "start") =>
          /\ pc \in DOMAIN StageAfter
          /\ pc' \in {StageAfter[pc], "failed"}
    /\ pc' = "start" => pc \in {"start", "done", "failed"}
    /\ pc' # "failed" => err' = Nil
    /\ pc' = "failed" => err' # Nil
    /\ (pc = "failed" /\ pc' = "failed") =>
          /\ err' = err
          /\ dirs' = dirs
          /\ Tree(files', config.OutputDir) = Tree(files, config.OutputDir)

C15_StagesInOrder == [][C15_Step]_vars

\* A run that failed while copying: the configuration file was not written.
C15_Witness ==
    /\ pc = "failed"
    /\ err[1] \in {"failed to copy image", "failed to copy label"}
    /\ Join(config.OutputDir, NDataYaml) \notin DOMAIN files
    /\ config.OutputDir \o <<NImages, NTrain>> \in dirs

\* The records the stage entered from pc copies, and their split.
StageList == IF pc = "layout" THEN trainPairs
             ELSE IF pc = "copiedTrain" THEN valPairs
             ELSE <<>>

StageSplit == IF pc = "layout" THEN NTrain ELSE NVal

\* C16: when a stage fails after the layout was created, every directory
\* and every file that was under the output root before the stage is still
\* there; a file's bytes differ only where the failing stage itself copied
\* onto it before it failed.
C16_Step ==
    (pc \in {"layout", "copiedTrain", "copiedVal"} /\ pc' = "failed") =>
        /\ dirs \subseteq dirs'
        /\ \A p \in DOMAIN files :
              /\ p \in DOMAIN files'
              /\ files'[p] # files[p] =>
                    p \in Destinations(StageList, StageSplit)

C16_NoCleanupOnAbort == [][C16_Step]_vars

\* A first run failed on a label copy with files already in the leaf
\* directories.
C16_Witness ==
    /\ pc = "failed"
    /\ history = <<>>
    /\ err[1] = "failed to copy label"
    /\ \E p, q \in LeafFiles : Front(p) # Front(q)
    /\ DirsToCreate(config)[4] \in dirs

(***************************************************************************)
(* SpecCopy: one CopyFiles call on a record list, a split and a file       *)
(* system drawn by Init; history keeps the split and the files before.     *)
(***************************************************************************)
MaxCopyRecords == 3

ImgSubA2 == ImagesDir \o <<NSub, <<"a", ".", "j", "p", "g">>>>

CopyRecords == {[ImagePath |-> ImgA, LabelPath |-> LblA],
                [ImagePath |-> ImgB2, LabelPath |-> LblB],
                [ImagePath |-> ImgSubA2, LabelPath |-> LblA]}

\* The lists of at most MaxCopyRecords different records.
CopyLists ==
    {ps \in UNION {[1..n -> CopyRecords] : n \in 0..MaxCopyRecords} :
        \A i, j \in DOMAIN ps : ps[i] = ps[j] => i = j}

CopyBytes(p) ==
    IF p = ImgSubA2 THEN <<"s", "u", "b">>
    ELSE IF p \in {LblA, LblB} THEN LabelBytes(p)
    ELSE Base(p)

StaleFile == OutputRoot \o <<NImages, NTrain, Base(ImgA)>>

BlockedFile == OutputRoot \o <<NImages, NVal, Base(ImgB2)>>

LayoutDirs == UNION {Prefixes(DirsToCreate(DefaultConfig)[i]) : i \in 1..4}

InitCopy ==
    /\ \E present \in SUBSET {ImgA, ImgB2, ImgSubA2, LblA, LblB},
          lblDir \in BOOLEAN, blocked \in BOOLEAN, stale \in BOOLEAN :
          /\ files = [p \in (present \ (IF lblDir THEN {LblB} ELSE {}))
                               \cup (IF stale THEN {StaleFile} ELSE {}) |->
                         IF p = StaleFile THEN <<"o", "l", "d">>
                         ELSE CopyBytes(p)]
          /\ dirs = RunDirs \cup {Join(ImagesDir, NSub)} \cup LayoutDirs
                       \cup (IF lblDir THEN {LblB} ELSE {})
                       \cup (IF blocked THEN {BlockedFile} ELSE {})
    /\ pairs \in CopyLists
    /\ config = DefaultConfig
    /\ pc = "call"
    /\ err = Nil
    /\ classes = <<>>
    /\ stats = NoStats
    /\ trainPairs = <<>>
    /\ valPairs = <<>>
    /\ rng = RngBoot
    /\ clock = 0
    /\ history = <<>>

CallCopyFiles(splitType) ==
    /\ pc = "call"
    /\ LET r == CopyFiles(pairs, splitType, files, dirs, config)
       IN /\ files' = r.files
          /\ err' = r.err
          /\ pc' = IF r.err = Nil THEN "returned" ELSE "failed"
    /\ history' = <<[splitType |-> splitType, files |-> files]>>
    /\ UNCHANGED <<dirs, config, classes, pairs, stats, trainPairs, valPairs,
                   rng, clock>>

NextCopy == \E splitType \in {NTrain, NVal} : CallCopyFiles(splitType)

SpecCopy == InitCopy /\ [][NextCopy]_vars

(***************************************************************************)
(* Claims about CopyFiles.                                                 *)
(***************************************************************************)
ImageDest(i) ==
    config.OutputDir \o <<NImages, history[1].splitType,
                          Base(pairs[i].ImagePath)>>

LabelDest(i) ==
    config.OutputDir \o <<NLabels, history[1].splitType,
                          Base(pairs[i].LabelPath)>>

\* C17: after CopyFiles returned without error, every record of the list
\* has its image under its base name in images/<split> and its label under
\* its base name in labels/<split>, each with the bytes of its source file.
C17_CopiesEqualSources ==
    pc = "returned" =>
        \A i \in DOMAIN pairs :
            /\ ImageDest(i) \in DOMAIN files
            /\ files[ImageDest(i)] = history[1].files[pairs[i].ImagePath]
            /\ LabelDest(i) \in DOMAIN files
            /\ files[LabelDest(i)] = history[1].files[pairs[i].LabelPath]

\* A copy that cannot succeed on the files the call started from: the source
\* is not a regular file, or the destination name is taken by a directory.
CopyFails(src, dst) ==
    src \notin DOMAIN history[1].files \/ dst \in dirs \/ Front(dst) \notin dirs

ImageFails(i) == CopyFails(pairs[i].ImagePath, ImageDest(i))

LabelFails(i) == CopyFails(pairs[i].LabelPath, LabelDest(i))

Written == {p \in DOMAIN files :
               p \notin DOMAIN history[1].files
                  \/ files[p] # history[1].files[p]}

\* C18: CopyFiles fails exactly when some copy cannot succeed; the error
\* names the source path of the first such file in list order, nothing is
\* written for a later record, and the copies of the earlier records are in
\* the destination.
C18_FirstFailureWins ==
    /\ pc = "returned" =>
          \A i \in DOMAIN pairs : ~ImageFails(i) /\ ~LabelFails(i)
    /\ pc = "failed" =>
          \E k \in DOMAIN pairs :
             /\ ImageFails(k) \/ LabelFails(k)
             /\ \A j \in 1..(k - 1) : ~ImageFails(j) /\ ~LabelFails(j)
             /\ err = IF ImageFails(k)
                         THEN <<"failed to copy image", pairs[k].ImagePath>>
                         ELSE <<"failed to copy label", pairs[k].LabelPath>>
             /\ DOMAIN history[1].files \subseteq DOMAIN files
             /\ Written \subseteq {ImageDest(j) : j \in 1..k}
                                     \cup {LabelDest(j) : j \in 1..k}
             /\ \A j \in 1..(k - 1) :
                   /\ ImageDest(j) \in DOMAIN files
                   /\ LabelDest(j) \in DOMAIN files
                   /\ \E m \in 1..k :
                         /\ ImageDest(m) = ImageDest(j)
                         /\ ~ImageFails(m)
                         /\ files[ImageDest(j)]
                               = history[1].files[pairs[m].ImagePath]
                   /\ files[LabelDest(j)]
                         = history[1].files[pairs[j].LabelPath]

\* The label of the second of three records failed: the first record is
\* copied, the third is not.
C18_Witness ==
    /\ pc = "failed"
    /\ Len(pairs) = 3
    /\ err = <<"failed to copy label", pairs[2].LabelPath>>
    /\ ImageDest(1) \in DOMAIN files
    /\ ImageDest(2) \in DOMAIN files
    /\ ImageDest(3) \notin DOMAIN files

(***************************************************************************)
(* SpecYaml: one CreateYAMLConfig call on a class list, an output root     *)
(* and a clock drawn by Init; history keeps the files before the call.     *)
(***************************************************************************)
MaxYamlClasses == 2

ClassNames == {<<"b", "o", "o", "k">>, <<"p", "e", "r", "s", "o", "n">>,
               <<"c", " ", "d">>}

ClassLists == UNION {[1..n -> ClassNames] : n \in 0..MaxYamlClasses}

OldClasses == <<<<"p", "e", "r", "s", "o", "n">>, <<"b", "o", "o", "k">>,
                <<"o", "l", "d">>>>

YamlConfigs == {[DefaultConfig EXCEPT !.OutputDir = d] :
                   d \in {OutputRoot, Join(SourceRoot, NOut)}}

InitYaml ==
    /\ config \in YamlConfigs
    /\ clock \in {0, 1}
    /\ classes \in ClassLists
    /\ \E rootExists \in BOOLEAN, yamlIsDir \in BOOLEAN, old \in BOOLEAN :
          /\ rootExists \/ (~yamlIsDir /\ ~old)
          /\ ~(yamlIsDir /\ old)
          /\ dirs = {SourceRoot}
                       \cup (IF rootExists THEN {config.OutputDir} ELSE {})
                       \cup (IF yamlIsDir
                                THEN {Join(config.OutputDir, NDataYaml)}
                                ELSE {})
          /\ files = IF old
                        THEN (Join(config.OutputDir, NDataYaml)
                                 :> YAMLText(config, OldClasses, 0))
                        ELSE NoFiles
    /\ pc = "call"
    /\ err = Nil
    /\ pairs = <<>>
    /\ stats = NoStats
    /\ trainPairs = <<>>
    /\ valPairs = <<>>
    /\ rng = RngBoot
    /\ history = <<>>

CallCreateYAMLConfig ==
    /\ pc = "call"
    /\ LET r == CreateYAMLConfig(classes, files, dirs, config, clock)
       IN /\ files' = r.files
          /\ err' = r.err
          /\ pc' = IF r.err = Nil THEN "returned" ELSE "failed"
    /\ history' = <<[files |-> files]>>
    /\ UNCHANGED <<dirs, config, classes, pairs, stats, trainPairs, valPairs,
                   rng, clock>>

NextYaml == CallCreateYAMLConfig

SpecYaml == InitYaml /\ [][NextYaml]_vars

YamlPath == Join(config.OutputDir, NDataYaml)

\* C19: after CreateYAMLConfig(classes) returned without error, data.yaml at
\* the output root records path = the absolute output root, train =
\* images/train, val = images/val, nc = the number of classes and names =
\* the classes in order, and nothing of a file that was there before.
C19_YamlRecordsClasses ==
    pc = "returned" =>
        /\ YamlPath \in DOMAIN files
        /\ files[YamlPath].Path = Cwd \o config.OutputDir
        /\ files[YamlPath].Train = <<NImages, NTrain>>
        /\ files[YamlPath].Val = <<NImages, NVal>>
        /\ files[YamlPath].NC = Len(classes)
        /\ files[YamlPath].Names = classes
        /\ \A p \in DOMAIN files \ {YamlPath} :
              p \in DOMAIN history[1].files /\ files[p] = history[1].files[p]

\* A configuration file of three classes was replaced by one of two.
C19_Witness ==
    /\ pc = "returned"
    /\ YamlPath \in DOMAIN history[1].files
    /\ history[1].files[YamlPath].NC = 3
    /\ Len(classes) = 2
    /\ classes[1] # classes[2]

(***************************************************************************)
(* SpecBulk: one Convert run on a tree of numbered records, each image     *)
(* with its label, into an output root that does not exist yet.            *)
(***************************************************************************)
BulkSizes == {3, MaxRecords - 1, MaxRecords}

BulkSplits == {Fraction(4, 5), Fraction(7, 10), Fraction(58, 100)}

BulkFiles(n) ==
    [p \in {RecordOf(i).ImagePath : i \in 1..n}
              \cup {RecordOf(i).LabelPath : i \in 1..n}
              \cup {ClassesPath} |->
        IF p = ClassesPath THEN ClassesBytes
        ELSE IF Front(p) = ImagesDir THEN Base(p)
        ELSE <<"0", " ", "0", ".", "5", " ", "0", ".", "5", " ", "0", ".", "3", " ", "0", ".", "3", "\n">>]

InitBulk ==
    /\ \E n \in BulkSizes : files = BulkFiles(n)
    /\ dirs = RunDirs
    /\ \E f \in BulkSplits, sd \in Seeds :
          config = [DefaultConfig EXCEPT !.TrainSplit = f, !.Seed = sd]
    /\ pc = "start"
    /\ err = Nil
    /\ classes = <<>>
    /\ pairs = <<>>
    /\ stats = NoStats
    /\ trainPairs = <<>>
    /\ valPairs = <<>>
    /\ rng = RngBoot
    /\ clock = 0
    /\ history = <<>>

SpecBulk == InitBulk /\ [][Next]_vars

FilesIn(dir) == {p \in DOMAIN files : Front(p) = dir}

\* C20: after a successful run with n records and fraction f into an empty
\* output root, images/train holds floor(n * f) files, images/val the other
\* n - floor(n * f), and together one file per record.
C20_OutputCounts ==
    pc = "done" =>
        LET n == Len(pairs)
            k == (n * config.TrainSplit.num) \div config.TrainSplit.den
            train == FilesIn(config.OutputDir \o <<NImages, NTrain>>)
            val == FilesIn(config.OutputDir \o <<NImages, NVal>>)
        IN /\ Cardinality(train) = k
           /\ Cardinality(val) = n - k
           /\ {Base(p) : p \in train} \cap {Base(p) : p \in val} = {}
           /\ {Base(p) : p \in train \cup val}
                 = {Base(pairs[i].ImagePath) : i \in DOMAIN pairs}

(***************************************************************************)
(* SpecLayout: CreateYOLOStructure called up to MaxLayoutCalls times on an *)
(* output root that is absent, partly built or complete; history keeps the *)
(* directories before each call and the call's error.                      *)
(***************************************************************************)
MaxLayoutCalls == 2

LayoutConfigs == {[DefaultConfig EXCEPT !.OutputDir = d] :
                     d \in {OutputRoot, <<NOut, NSub>>}}

\* The directories of the layout of cfg, parents included.
LayoutOf(cfg) == UNION {Prefixes(DirsToCreate(cfg)[i]) : i \in 1..4}

InitLayout ==
    /\ config \in LayoutConfigs
    /\ \E existing \in SUBSET LayoutOf(config),
          stale \in BOOLEAN, blocker \in BOOLEAN :
          /\ \A d \in existing : Prefixes(d) \subseteq existing
          /\ stale => DirsToCreate(config)[1] \in existing
          /\ blocker => /\ config.OutputDir \in existing
                        /\ Join(config.OutputDir, NLabels) \notin existing
          /\ dirs = existing
          /\ files = [p \in (IF stale
                                THEN {Join(DirsToCreate(config)[1], Base(ImgA))}
                                ELSE {})
                             \cup (IF blocker
                                      THEN {Join(config.OutputDir, NLabels)}
                                      ELSE {}) |-> <<"o", "l", "d">>]
    /\ pc = "call"
    /\ err = Nil
    /\ classes = <<>>
    /\ pairs = <<>>
    /\ stats = NoStats
    /\ trainPairs = <<>>
    /\ valPairs = <<>>
    /\ rng = RngBoot
    /\ clock = 0
    /\ history = <<>>

CallCreateYOLOStructure ==
    /\ Len(history) < MaxLayoutCalls
    /\ LET r == CreateYOLOStructure(files, dirs, config)
       IN /\ dirs' = r.dirs
          /\ err' = r.err
          /\ pc' = IF r.err = Nil THEN "returned" ELSE "failed"
          /\ history' = Append(history, [dirs |-> dirs, err |-> r.err])
    /\ UNCHANGED <<files, config, classes, pairs, stats, trainPairs, valPairs,
                   rng, clock>>

NextLayout == CallCreateYOLOStructure

SpecLayout == InitLayout /\ [][NextLayout]_vars

\* C21: a CreateYOLOStructure call that succeeds adds the four leaf
\* directories and their missing parents and nothing else, it succeeds
\* whenever no regular file is in the way, and a call made when the four
\* directories exist succeeds and changes no directory and no file.
C21_Step ==
    /\ files' = files
    /\ dirs \subseteq dirs'
    /\ err' = Nil => dirs' = dirs \cup LayoutOf(config)
    /\ LayoutOf(config) \cap DOMAIN files = {} => err' = Nil
    /\ (\A i \in 1..4 : DirsToCreate(config)[i] \in dirs) =>
          err' = Nil /\ dirs' = dirs

C21_LayoutIdempotent == [][C21_Step]_vars

\* A second call after a successful first one that had to create
\* directories, with a file inside the layout.
C21_Witness ==
    /\ Len(history) = 2
    /\ pc = "returned"
    /\ history[1].err = Nil
    /\ history[1].dirs # history[2].dirs
    /\ history[2].dirs = dirs
    /\ DOMAIN files # {}

(***************************************************************************)
(* SpecFraction: SplitDataset called with a fraction outside [0,1], as the *)
(* -train-split flag delivers it (main.go:466 has no range check).         *)
(***************************************************************************)
MaxOutside == 150

MaxFractionRecords == 5

\* Fractions outside [0,1]: in hundredths, and in thirds, sixths and
\* sevenths, whose float64 values are rounded (4/3 stands for the float64
\* 1.3333333333333333, -1/3 for -0.3333333333333333).
OutsideFractions ==
    {Fraction(-j, FractionDen) : j \in 1..MaxOutside} \cup
    {Fraction(FractionDen + j, FractionDen) : j \in 1..MaxOutside} \cup
    UNION {{Fraction(-j, d), Fraction(d + j, d)} : <<j, d>> \in
              {jd \in (1..7) \X {3, 6, 7} : jd[1] <= jd[2]}}

InitFraction ==
    /\ files = NoFiles
    /\ dirs = {}
    /\ \E f \in OutsideFractions :
          config = [DefaultConfig EXCEPT !.TrainSplit = f]
    /\ pc = "call"
    /\ err = Nil
    /\ classes = <<>>
    /\ \E n \in 0..MaxFractionRecords : pairs = RecordList(n)
    /\ stats = NoStats
    /\ trainPairs = <<>>
    /\ valPairs = <<>>
    /\ rng = RngBoot
    /\ clock = 0
    /\ history = <<>>

SpecFraction == InitFraction /\ [][NextSplitFn]_vars

\* C22 as stated: with a fraction outside [0,1] every non-empty record list
\* makes the split fault.
C22_OutsideAlwaysFaults ==
    (pc # "call" /\ Len(pairs) > 0) => pc = "panic"

\* The whole part of the magnitude b * 2^exp, b a bit sequence.
WholePart(b, exp) ==
    IF Len(b) + exp <= 0 THEN 0
    ELSE IF exp >= 0 THEN BitsToNat(b) * Pow2(exp)
    ELSE BitsToNat(SubSeq(b, 1, Len(b) + exp))

\* b plus one half of a unit of its 53rd bit; b itself when it has no more
\* than 53 bits.
PlusHalfUnit(b) ==
    IF Len(b) <= MantBits THEN b
    ELSE IncBits(SubSeq(b, 1, MantBits + 1)) \o SubSeq(b, MantBits + 2, Len(b))

\* The magnitude of n * f, computed exactly, is m or more, or is so close
\* below the whole number m that its nearest float64 is m.
ProductReaches(n, f, m) ==
    n > 0 /\ f.mant # <<>> /\
    WholePart(PlusHalfUnit(MulBits(f.mant, n, 0)), f.exp) >= m

\* C22 amended: with a fraction f outside [0,1] and n records the split
\* faults exactly when float64(n)*f, the product n*f rounded to the nearest
\* float64, is n+1 or more or is -1 or less; otherwise it returns every
\* record as training and none as validation for f > 1, and none as
\* training and every record as validation for f < 0.
C22_FaultsWhenProductReachesBound ==
    LET n == Len(pairs)
        f == TrainSplitValue(config)
    IN pc # "call" =>
          IF f.sign = 0
             THEN IF ProductReaches(n, f, n + 1) THEN pc = "panic"
                  ELSE pc = "returned" /\ Len(trainPairs) = n /\ valPairs = <<>>
             ELSE IF ProductReaches(n, f, 1) THEN pc = "panic"
                  ELSE pc = "returned" /\ trainPairs = <<>> /\ Len(valPairs) = n

\* Three records split at 1.3333333333333333: the exact product is below 4,
\* the float64 product is 4.0, and the split faulted.
C22_Witness ==
    /\ pc = "panic"
    /\ Len(pairs) = 3
    /\ config.TrainSplit = Fraction(4, 3)
    /\ WholePart(MulBits(TrainSplitValue(config).mant, 3, 0),
                 TrainSplitValue(config).exp) = 3

(***************************************************************************)
(* SpecUnreadable: ValidateLabels over records whose label path is a       *)
(* regular file, at most one of them with a line that does not fit the     *)
(* scanner's buffer, a directory (os.Open succeeds and the scan fails,     *)
(* main.go:355-359) or nothing at all (os.Open fails, main.go:300-305).    *)
(***************************************************************************)
UnreadableTexts ==
    {<<"0", " ", "0", ".", "5", " ", "0", ".", "5", " ", "0", ".", "3", " ", "0", ".", "3", "\n", "1", " ", "0", ".", "2", " ", "0", ".", "8", " ", "0", ".", "1", " ", "0", ".", "1", "\n">>,
     <<"0", " ", "0", ".", "5", " ", "2", " ", "0", ".", "3", " ", "0", ".", "3", "\n">>,
     <<" ", "\n", "\t", "\n">>}

\* An invalid line and a valid line before a line that does not fit the
\* scanner's buffer.
LongLabelText ==
    <<"x", "\n", "0", " ", "0", ".", "5", " ", "0", ".", "5", " ", "0", ".", "3", " ", "0", ".", "3", "\n">>
        \o Repeat("a", MaxScanTokenSize)

InitUnreadable ==
    /\ \E n \in 0..MaxStatFiles :
          /\ pairs = RecordList(n)
          /\ \E present \in SUBSET {pairs[i].LabelPath : i \in 1..n} :
                /\ \E long \in {l \in SUBSET present : Cardinality(l) <= 1} :
                      \E short \in [present \ long -> UnreadableTexts] :
                         files = [p \in present |->
                                    IF p \in long THEN LongLabelText
                                    ELSE short[p]]
                /\ \E asDir \in SUBSET ({pairs[i].LabelPath : i \in 1..n}
                                           \ present) :
                      dirs = {SourceRoot, Join(SourceRoot, NImages),
                              Join(SourceRoot, NLabels)} \cup asDir
    /\ config = DefaultConfig
    /\ pc = "call"
    /\ err = Nil
    /\ classes = <<>>
    /\ stats = NoStats
    /\ trainPairs = <<>>
    /\ valPairs = <<>>
    /\ rng = RngBoot
    /\ clock = 0
    /\ history = <<>>

SpecUnreadable == InitUnreadable /\ [][NextStats]_vars

\* The records whose label path is not a regular file: it cannot be opened,
\* or it is a directory and cannot be read.
Unopened == {i \in DOMAIN pairs : pairs[i].LabelPath \notin DOMAIN files}

\* The records whose label file has a line that the scanner cannot hold.
Unscannable ==
    {i \in DOMAIN pairs \ Unopened : ~EveryLineFits(files[pairs[i].LabelPath])}

\* The records whose label file cannot be opened or scanned to its end.
Unreadable == Unopened \cup Unscannable

\* The number of lines of a label file that the line check counts as invalid.
FileInvalidCount(data) ==
    LET lines == ScanLines(data)
    IN Cardinality({k \in DOMAIN lines : LineCounts(lines[k]).invalid = 1})

\* The valid lines of records 1..n outside the set un.
RECURSIVE ReadValidUpTo(_, _)
ReadValidUpTo(n, un) ==
    IF n = 0 THEN 0
    ELSE ReadValidUpTo(n - 1, un) +
         (IF n \in un THEN 0 ELSE RecordValidCount(n))

\* The invalid lines scanned in records 1..n outside the set un.
RECURSIVE ReadInvalidUpTo(_, _)
ReadInvalidUpTo(n, un) ==
    IF n = 0 THEN 0
    ELSE ReadInvalidUpTo(n - 1, un) +
         (IF n \in un THEN 0
          ELSE FileInvalidCount(files[pairs[n].LabelPath]))

\* C23: ValidateLabels returns without an error, and each label file that
\* cannot be opened adds exactly one to InvalidLines and nothing to
\* TotalAnnotations, FilesWithAnnotations and EmptyFiles, the records after
\* it being checked as usual.  (A file that is opened and whose scan fails
\* adds one as well, on top of the invalid lines scanned before the
\* failure.)
C23_UnreadableCountsOnce ==
    pc = "returned" =>
        LET unopened == Unopened
            unreadable == Unreadable
        IN /\ err = Nil
           /\ stats.InvalidLines =
                 ReadInvalidUpTo(Len(pairs), unopened) + Cardinality(unreadable)
           /\ stats.TotalAnnotations = ReadValidUpTo(Len(pairs), unreadable)
           /\ stats.FilesWithAnnotations =
                 Cardinality({i \in DOMAIN pairs \ unreadable :
                                 RecordValidCount(i) > 0})
           /\ stats.EmptyFiles =
                 Cardinality({i \in DOMAIN pairs \ unreadable :
                                 RecordValidCount(i) = 0})

\* A missing label file between a file with two valid lines and a file with
\* an invalid line.
C23_Witness ==
    /\ pc = "returned"
    /\ Len(pairs) = 3
    /\ Unreadable = {2}
    /\ Unopened = {2}
    /\ pairs[2].LabelPath \notin dirs
    /\ stats.InvalidLines = 2
    /\ stats.TotalAnnotations = 2
    /\ stats.FilesWithAnnotations = 1
    /\ stats.EmptyFiles = 1

\* C25 as stated: TotalFiles = FilesWithAnnotations + EmptyFiles for every
\* record list, label files that cannot be opened or scanned included.
C25_TotalIsSumOfTwo ==
    pc = "returned" =>
        stats.TotalFiles = stats.FilesWithAnnotations + stats.EmptyFiles

\* C25 amended: TotalFiles is FilesWithAnnotations plus EmptyFiles plus the
\* number of records whose label file could not be opened or scanned.
C25_TotalIsSumOfThree ==
    pc = "returned" =>
        stats.TotalFiles = stats.FilesWithAnnotations + stats.EmptyFiles
                              + Cardinality(Unreadable)

\* A label path that is a directory, next to a file with annotations and a
\* file without.
C25_Witness ==
    /\ pc = "returned"
    /\ \E i \in Unreadable : pairs[i].LabelPath \in dirs
    /\ stats.TotalFiles = 3
    /\ stats.FilesWithAnnotations = 1
    /\ stats.EmptyFiles = 1

(***************************************************************************)
(* SpecLines: ValidateLabels over one label file of up to MaxFileLines     *)
(* lines: valid, empty, whitespace only, two coordinates out of range, a   *)
(* bad class with two bad coordinates, two values; the last line with or   *)
(* without its newline.                                                    *)
(***************************************************************************)
MaxFileLines == 3

LineTexts ==
    {<<"0", " ", "0", ".", "5", " ", "0", ".", "5", " ", "0", ".", "3", " ", "0", ".", "3">>,
     <<>>,
     <<" ", "\t">>,
     <<"0", " ", "2", " ", "2", " ", "0", ".", "3", " ", "0", ".", "3">>,
     <<"x", " ", "2", " ", "0", ".", "5", " ", "0", ".", "5", " ", "-", "1">>,
     <<"0", " ", "0", ".", "5">>}

TwoViolationsLine == <<"0", " ", "2", " ", "2", " ", "0", ".", "3", " ", "0", ".", "3">>

ValidLine == <<"0", " ", "0", ".", "5", " ", "0", ".", "5", " ", "0", ".", "3", " ", "0", ".", "3">>

RECURSIVE JoinLines(_)
JoinLines(ls) ==
    IF ls = <<>> THEN <<>>
    ELSE IF Len(ls) = 1 THEN ls[1]
    ELSE ls[1] \o <<"\n">> \o JoinLines(Tail(ls))

InitLines ==
    /\ \E n \in 1..MaxFileLines :
          \E ls \in [1..n -> LineTexts], last \in {<<>>, <<"\n">>} :
              files = (LabelRecord.LabelPath :> JoinLines(ls) \o last)
    /\ dirs = {SourceRoot, Join(SourceRoot, NImages),
               Join(SourceRoot, NLabels)}
    /\ config = DefaultConfig
    /\ pc = "call"
    /\ err = Nil
    /\ classes = <<>>
    /\ pairs = <<LabelRecord>>
    /\ stats = NoStats
    /\ trainPairs = <<>>
    /\ valPairs = <<>>
    /\ rng = RngBoot
    /\ clock = 0
    /\ history = <<>>

SpecLines == InitLines /\ [][NextLabels]_vars

\* C24: over a readable label file TotalAnnotations + InvalidLines is the
\* number of lines holding a character other than whitespace: each such line
\* counts once, as valid or as invalid, whatever the number of its
\* violations, and a blank line counts nowhere.
C24_EachLineOnce ==
    pc = "returned" =>
        /\ stats.TotalAnnotations + stats.InvalidLines =
              Cardinality(NonBlankSpans(files[LabelRecord.LabelPath]))
        /\ stats.TotalAnnotations =
              Cardinality({sp \in NonBlankSpans(files[LabelRecord.LabelPath]) :
                  LineCounts(TrimmedText(files[LabelRecord.LabelPath], sp)).valid = 1})

\* A line with two coordinates out of range, a blank line and a valid line.
C24_Witness ==
    /\ pc = "returned"
    /\ files[LabelRecord.LabelPath] =
          TwoViolationsLine \o <<"\n", "\n">> \o ValidLine \o <<"\n">>
    /\ stats.InvalidLines = 1
    /\ stats.TotalAnnotations = 1

\* C26: GetImageLabelPairs returns no two records with the same label path
\* or the same image base name, so that no two copies of a split have the
\* same destination.
C26_RecordsDistinct ==
    pc \in AfterPairing =>
        \A i \in DOMAIN pairs, j \in DOMAIN pairs :
            i # j => /\ pairs[i].LabelPath # pairs[j].LabelPath
                     /\ Base(pairs[i].ImagePath) # Base(pairs[j].ImagePath)

(***************************************************************************)
(* SpecInside: Convert run up to MaxInsideRuns times with the same flags,  *)
(* the output root being apart from the source, the source root itself or  *)
(* its images directory; the source may hold an image in images/train.     *)
(***************************************************************************)
MaxInsideRuns == 2

ImgTrainA == ImagesDir \o <<NTrain, Base(ImgA)>>

InsideFiles ==
    (ImgA :> Base(ImgA)) @@ (ImgB2 :> Base(ImgB2))
       @@ (LblA :> LabelBytes(LblA)) @@ (LblB :> LabelBytes(LblB))
       @@ (ClassesPath :> ClassesBytes)

InitInside ==
    /\ \E nested \in BOOLEAN :
          /\ files = IF nested THEN (ImgTrainA :> <<"t">>) @@ InsideFiles
                     ELSE InsideFiles
          /\ dirs = IF nested THEN RunDirs \cup {Join(ImagesDir, NTrain)}
                    ELSE RunDirs
    /\ \E c \in RunConfigs, out \in {OutputRoot, SourceRoot, ImagesDir} :
          config = [c EXCEPT !.OutputDir = out]
    /\ pc = "start"
    /\ err = Nil
    /\ classes = <<>>
    /\ pairs = <<>>
    /\ stats = NoStats
    /\ trainPairs = <<>>
    /\ valPairs = <<>>
    /\ rng = RngBoot
    /\ clock = 0
    /\ history = <<>>

\* The program is started again with the same flags.
RunAgain ==
    /\ pc \in {"done", "failed"}
    /\ Len(history) < MaxInsideRuns - 1
    /\ history' = Append(history, [config |-> config, ok |-> pc = "done",
                                   output |-> Tree(files, config.OutputDir)])
    /\ clock' \in {clock, clock + 1}
    /\ pc' = "start"
    /\ err' = Nil
    /\ classes' = <<>>
    /\ pairs' = <<>>
    /\ stats' = NoStats
    /\ trainPairs' = <<>>
    /\ valPairs' = <<>>
    /\ rng' = RngBoot
    /\ UNCHANGED <<files, dirs, config>>

NextInside ==
    \/ ConvertValidateSource
    \/ ConvertLoadClasses
    \/ ConvertGetPairs
    \/ ConvertValidateLabels
    \/ ConvertSplit
    \/ ConvertCreateStructure
    \/ ConvertCopyTrain
    \/ ConvertCopyVal
    \/ ConvertCreateYAML
    \/ RunAgain

SpecInside == InitInside /\ [][NextInside]_vars

\* The files Convert reads: those under the source's images and labels
\* directories and classes.txt.
SourceEntries(fs) ==
    {p \in DOMAIN fs : \/ IsUnder(p, Join(config.SourceDir, NImages))
                       \/ IsUnder(p, Join(config.SourceDir, NLabels))
                       \/ p = Join(config.SourceDir, NClasses)}

\* C27: whatever the output root, also the source root or a directory inside
\* it, and whatever the number of runs, no step of Convert removes or
\* changes a file under the source's images or labels directory or
\* classes.txt.
C27_Step ==
    \A p \in SourceEntries(files) : p \in DOMAIN files' /\ files'[p] = files[p]

C27_SourceOnlyRead == [][C27_Step]_vars

\* C28: SplitDataset leaves the list it is given as it was: same records in
\* the same order, whatever the shuffle did to the lists it returns.
C28_Step == pc = "call" => pairs' = pairs

C28_InputUnchanged == [][C28_Step]_vars

\* A call that returned lists in another order than the input's.
C28_Witness ==
    /\ pc = "returned"
    /\ Len(pairs) = MaxRecords
    /\ pairs = RecordList(MaxRecords)
    /\ trainPairs \o valPairs # pairs
    /\ trainPairs # <<>>
    /\ valPairs # <<>>

====
